---- MODULE Spec2Model ----
(***************************************************************************)
(* Stream-to-artifact pipeline of the flask-client: ingest tasks sample    *)
(* frames into the detector and classifier workers, whose results are      *)
(* written by the CSV writer thread through IrisInputProcessor into        *)
(* rolling CSV files; the CSV completion callback offers files to the      *)
(* SFTP uploader queue.                                                    *)
(***************************************************************************)
EXTENDS Integers, Sequences, FiniteSets, TLC

\* ---------------------------------------------------------------- bounds
MaxTime == 3                 \* wall clock runs over 0..MaxTime
MaxFrames == 2               \* frames sampled by all ingest tasks together
MaxFaults == 1               \* inference exceptions and I/O faults injected
QueueMax == 1                \* capacity used for every bounded queue
csv_interval_seconds == 2    \* project setting (default 60)
image_processing_interval == 1  \* project setting (default 1.0)
MaxCalls == 3                \* /start-thread and /stop-thread requests received
UploadQueueMax == 2          \* capacity of the upload queue (100 in the code)
MaxUploads == 3              \* queue_upload calls made
MaxChunks == 5               \* chunks one ingest thread receives from its stream
MaxChunkLen == 3             \* bytes in one chunk (at most chunk_size in the code)
BurstFrames == 3             \* frames offered to the detector in one burst
MaxChecks == 3               \* health probes one monitor makes
MaxClasses == 3              \* longest class-name table, largest predicted index
MaxStarts == 2               \* start() calls that start a monitor thread

\* ------------------------------------------------------- program constants
PixelScaleNum == 900         \* pixels_per_mm = 1 / (900 / 240)
PixelScaleDen == 240
STREAM_MAX_BUFFER_SIZE == 4        \* config: 10 * 1024 * 1024 bytes, scaled down
STREAM_CHUNK_CHECK_INTERVAL == 2   \* config: 5 chunks, scaled down

Sources == {"webcam_0", "simulator_0"}
FolderTypes == {"model", "classifier"}
Workers == {"detector", "classifier", "csv", "sftp"}
BeltStatuses == {"belt_ok"}  \* tags classifier_process_image returns
NoServer == "no_server"
SftpServers == {"sftp_1"}    \* sftp_provider.get_all_servers()[0] of the configured project
NoPath == <<>>

\* ------------------------------------------------------------- settings
\* CameraSettings records loaded per task (get_camera_settings); the
\* particle_bb_dimension_factor 0.9 is kept as the fraction 9/10.
SettingsOf(s) ==
    IF s = "webcam_0"
    THEN [min_d_detect |-> 3, max_d_detect |-> 6, min_d_save |-> 3,
          max_d_save |-> 10, factor_num |-> 9, factor_den |-> 10]
    ELSE [min_d_detect |-> 6, max_d_detect |-> 10, min_d_save |-> 0,
          max_d_save |-> 10, factor_num |-> 9, factor_den |-> 10]

\* Frames offered by the upstream: the list of boxes [x1,y1,x2,y2] the
\* detector returns for the frame (results[0].boxes.xyxy).
Frames ==
    { << <<0, 0, 1, 1>> >>,
      << <<0, 0, 3, 2>>, <<1, 1, 3, 2>> >> }

\* Task options given to StartTask: the detector id and the classifier id.
HasModel(s) == s \in Sources
HasClassifier(s) == s = "webcam_0"

\* ------------------------------------------------------------ arithmetic
Max2(a, b) == IF a >= b THEN a ELSE b

\* Python round() of the non-negative fraction n/d: half to even.
RoundHalfEven(n, d) ==
    LET q == n \div d
        r == n % d
    IN  IF 2 * r < d THEN q
        ELSE IF 2 * r > d THEN q + 1
        ELSE IF q % 2 = 0 THEN q ELSE q + 1

\* int(w / pixels_per_mm) for a non-negative pixel length w.
ToMm(w) == (w * PixelScaleNum) \div PixelScaleDen

\* ------------------------------------------------- object_process_image
DetectedParticle(box, settings) ==
    LET width == box[3] - box[1]
        height == box[4] - box[2]
        width_mm == ToMm(width)
        height_mm == ToMm(height)
    IN  [width_px |-> width, height_px |-> height,
         width_mm |-> width_mm, height_mm |-> height_mm,
         max_d_mm |-> RoundHalfEven(Max2(width_mm, height_mm) * settings.factor_num,
                                    settings.factor_den)]

InDetectRange(p, settings) ==
    settings.min_d_detect <= p.max_d_mm /\ p.max_d_mm <= settings.max_d_detect

InSaveRange(p, settings) ==
    settings.min_d_save <= p.max_d_mm /\ p.max_d_mm <= settings.max_d_save

\* result = [image, xyxy, particles_to_detect, particles_to_save]
object_process_image(frame, settings) ==
    LET all_particles == [i \in DOMAIN frame |-> DetectedParticle(frame[i], settings)]
        KeepDetect(p) == InDetectRange(p, settings)
        KeepSave(p) == InSaveRange(p, settings)
    IN  [xyxy |-> frame,
         particles_to_detect |-> SelectSeq(all_particles, KeepDetect),
         particles_to_save |-> SelectSeq(all_particles, KeepSave)]

\* Variant of ResultForCsv that forwards result[3], the to_save list.
ResultForCsv_ToSave(result) == [xyxy |-> result.xyxy, particles |-> result.particles_to_save]

\* result_for_csv = [result[0], result[1], result[2]]
ResultForCsv(result) == [xyxy |-> result.xyxy, particles |-> result.particles_to_detect]

\* ---------------------------------------------------------------- state
VARIABLES
    now,                              \* wall clock (datetime.now / time.time)
    sampled,                          \* frames sampled so far (bounded by MaxFrames)
    sftp_server_info,                 \* first SFTP server record, or NoServer
    pend,                             \* per task: the stamped request not yet enqueued
    last_model_processing_time,       \* per task sampling gate, detector
    last_classifier_processing_time,  \* per task sampling gate, classifier
    detection_queue,                  \* ModelDetectorThread._detection_queue
    classification_queue,             \* ClassifierProcessorThread._classification_queue
    csv_queue,                        \* CsvWriterThread._csv_queue
    upload_queue,                     \* SftpUploaderThread._upload_queue
    running,                          \* per worker: _running
    stats,                            \* per worker: _stats
    rejected_full,                    \* per worker: enqueue calls that met a full queue
    active_csv_files,                 \* IrisInputProcessor.active_csv_files
    files,                            \* content of the CSV files on disk, by path
    created,                          \* CSV files in creation order
    faults,                           \* faults injected so far (bounded by MaxFaults)
    threads,                          \* ThreadManager._threads: task record per key
    ingest,                           \* ingest threads launched so far, in launch order
    active_streams,                   \* SocketManager._active_streams: response per stream id
    closed_responses,                 \* responses on which close() has been called
    start_call,                       \* per request handler: the /start-thread call in progress
    stop_call,                        \* the /stop-thread call in progress
    task_log,                         \* per key: launches, flag clearings, record after a stop
    stop_event,                       \* per worker: _stop_event
    worker_thread,                    \* per worker: position of the worker thread
    at_stop,                          \* per worker: what stop() saw when it set the event
    cleanup,                          \* cleanup_threads: position, steps begun, join results
    singletons,                       \* sessions, health monitors and logger still up
    transfers,                        \* SftpUploaderThread: jobs accepted, job in transfer, transfer log
    handed,                           \* per task and stage: time of the frame handed last, if any
    stream,                           \* per ingest thread: chunk_count, buffer, last chunk, chunks since stop
    burst,                            \* detector under a burst: frames offered, request in inference
    health,                           \* ServerHealthMonitor: _running, _status, probes made, listener calls
    verdict,                          \* classifier_process_image: class_names, index, result, error log
    counting,                         \* one ingest task: configuration, gates, frame_count, frames sampled
    inserting,                        \* per task: outcome of its put_nowait not yet counted
    monitor                           \* one ServerHealthMonitor: _running, lock, threads, callers

pipeVars == <<now, sampled, sftp_server_info, pend, last_model_processing_time,
              last_classifier_processing_time, detection_queue, classification_queue,
              csv_queue, upload_queue, running, stats, rejected_full,
              active_csv_files, files, created, faults>>

taskVars == <<threads, ingest, active_streams, closed_responses, start_call,
              stop_call, task_log>>

workerVars == <<stop_event, worker_thread, at_stop>>

shutdownVars == <<cleanup, singletons>>

uploadVars == <<transfers>>

gateVars == <<handed>>

streamVars == <<stream>>

sceneVars == <<burst, health, verdict>>

extraVars == <<counting, inserting, monitor>>

compVars == <<uploadVars, gateVars, streamVars, sceneVars, extraVars>>

vars == <<pipeVars, taskVars, workerVars, shutdownVars, compVars>>

\* csv_name = subfolder + "_" + timestamp: one path per (folder type, timestamp)
CsvPath(folder_type, timestamp) == <<folder_type, timestamp>>
Paths == {CsvPath(ft, t) : ft \in FolderTypes, t \in 0..MaxTime}

Header == [kind |-> "header"]

InitStats(w) ==
    IF w = "detector" \/ w = "classifier"
    THEN [total_queued |-> 0, total_processed |-> 0, total_failed |-> 0, total_dropped |-> 0]
    ELSE IF w = "csv"
    THEN [total_queued |-> 0, total_written |-> 0, total_failed |-> 0]
    ELSE [total_queued |-> 0, total_uploaded |-> 0, total_failed |-> 0]

\* ----------------------------------------------------------- task records
RequestKeys == {"webcam_0"}  \* thread_id = device_type + "_" + device_id of the requests
StartCallers == {1, 2}       \* request handler threads serving /start-thread
NoTask == <<>>
NoResponse == 0
ProbeOutcomes == {"200", "non200", "connection_error", "timeout", "exception"}
StreamErrors == {"timeout", "connection_error", "exception"}
ErrorStatuses == {"error: timeout", "error: server unreachable", "error: exception"}

\* The dict start_thread stores under the key ('start_time', 'last_update'
\* and 'metadata' play no part in starting and stopping).
TaskRecord(t) == [thread |-> t, running |-> TRUE, status |-> "starting"]

\* An ingest thread: the key it serves, its position, the exception it is
\* handling, whether that exception came from a force-closed response,
\* and the error status its handler has set.
IngestThread(k, pc) ==
    [key |-> k, pc |-> pc, exc |-> "none", forced |-> FALSE, error_status |-> "none"]

IdleStart == [pc |-> "idle", key |-> "none", probe |-> "none", result |-> "none"]
IdleStop == [pc |-> "idle", key |-> "none", thread |-> 0, result |-> "none"]

EmptyTaskLog ==
    [start_calls |-> 0, stop_calls |-> 0,
     launched |-> [k \in Sources |-> 0], cleared |-> [k \in Sources |-> 0],
     after_stop |-> [k \in Sources |-> NoTask]]

\* ------------------------------------------------------------------ init
PipelineInit ==
    /\ now = 0
    /\ sampled = 0
    /\ sftp_server_info \in SftpServers
    /\ pend = [s \in Sources |-> <<>>]
    /\ last_model_processing_time = [s \in Sources |-> 0 - image_processing_interval]
    /\ last_classifier_processing_time = [s \in Sources |-> 0 - image_processing_interval]
    /\ detection_queue = <<>>
    /\ classification_queue = <<>>
    /\ csv_queue = <<>>
    /\ upload_queue = <<>>
    /\ stats = [w \in Workers |-> InitStats(w)]
    /\ rejected_full = [w \in Workers |-> 0]
    /\ active_csv_files = {}
    /\ files = [p \in Paths |-> <<>>]
    /\ created = <<>>
    /\ faults = 0

\* app.py has started the four workers, the health monitors and the logger.
WorkersStarted ==
    /\ running = [w \in Workers |-> TRUE]
    /\ stop_event = [w \in Workers |-> FALSE]
    /\ worker_thread = [w \in Workers |-> "loop"]
    /\ at_stop = [w \in Workers |-> <<>>]
    /\ cleanup = [pc |-> "idle", begun |-> <<>>, waiting |-> <<>>, joined |-> <<>>]
    /\ start_call = [c \in StartCallers |-> IdleStart]
    /\ stop_call = IdleStop

\* No upload job has been submitted.
NoJob == <<>>
NoTransfers == [calls |-> 0, accepted |-> <<>>, current |-> NoJob, log |-> <<>>]

\* Ingest threads that can be launched: the first and one per request.
ThreadIds == 1..(MaxCalls + 1)

\* chunk_count = 0 and buffer = b'' before the first chunk.
NoChunks == [chunk_count |-> 0, buffer |-> <<>>, chunk |-> <<>>, since_stop |-> 0]

\* No frame has been offered in a burst and no inference is in progress.
NoBurst == [offered |-> 0, inference |-> <<>>, taken_after |-> 0]

\* ServerHealthMonitor after start(): _status = ServerStatus.UNKNOWN.
MonitorStarted == [running |-> TRUE, status |-> "unknown", probes |-> <<>>, calls |-> <<>>]

\* No frame has been classified: no class-name table loaded yet.
NoVerdict == [class_names |-> <<>>, predicted_index |-> <<>>, belt_status |-> <<>>,
              errors |-> 0]

\* process_video_stream_background has not been entered.
NoCounting == [started |-> FALSE, model_id |-> FALSE, classifier_id |-> FALSE,
               model |-> FALSE, model_loaded |-> FALSE, frames |-> 0,
               frame_count |-> 0, in_a_stage |-> 0,
               last_model_processing_time |-> 0, last_classifier_processing_time |-> 0]

\* No ingest thread is inside queue_detection.
NoInserting == [s \in Sources |-> "none"]

\* A registered ServerHealthMonitor after __init__: not running, status
\* unknown, no thread started, its lock and the lock of the service free,
\* no stop_all() and no get_all_statuses() request in progress. lock is 0
\* or the thread that holds it.
MonitorIdle == [running |-> FALSE, status |-> "unknown", lock |-> 0,
                service_lock |-> "free", threads |-> <<>>, stop_all |-> "idle",
                request |-> "idle"]

ComponentsIdle ==
    /\ counting = NoCounting
    /\ inserting = NoInserting
    /\ monitor = MonitorIdle
    /\ burst = NoBurst
    /\ health = MonitorStarted
    /\ verdict = NoVerdict
    /\ stream = [t \in ThreadIds |-> NoChunks]
    /\ transfers = NoTransfers
    /\ handed = [s \in Sources |-> [ft \in FolderTypes |-> <<>>]]

\* No task has been started yet.
NoTasks ==
    /\ threads = [k \in Sources |-> NoTask]
    /\ ingest = <<>>
    /\ active_streams = [k \in Sources |-> NoResponse]
    /\ closed_responses = {}
    /\ task_log = EmptyTaskLog
    /\ singletons = [sessions |-> FALSE, health |-> TRUE, logger |-> TRUE]

\* Sequence of the members of Sources that are in keys, in a fixed order.
KeySeq(keys) ==
    LET In(k) == k \in keys
    IN  SelectSeq(<<"webcam_0", "simulator_0">>, In)

IndexOf(seq, x) == CHOOSE i \in 1..Len(seq) : seq[i] = x

\* One task per key of keys has been started and is reading its stream.
TasksStreaming(keys) ==
    LET ks == KeySeq(keys)
    IN  /\ ingest = [i \in 1..Len(ks) |-> IngestThread(ks[i], "stream")]
        /\ threads = [k \in Sources |->
                        IF k \in keys
                        THEN [TaskRecord(IndexOf(ks, k)) EXCEPT !.status = "running"]
                        ELSE NoTask]
        /\ active_streams = [k \in Sources |->
                                IF k \in keys THEN IndexOf(ks, k) ELSE NoResponse]
        /\ closed_responses = {}
        /\ task_log = [EmptyTaskLog EXCEPT
                          !.launched = [k \in Sources |-> IF k \in keys THEN 1 ELSE 0]]
        /\ singletons = [sessions |-> TRUE, health |-> TRUE, logger |-> TRUE]

\* State after app.py has constructed and started the four workers and
\* a task is streaming for every source, before any frame was sampled.
Init ==
    /\ PipelineInit
    /\ WorkersStarted
    /\ TasksStreaming(Sources)
    /\ ComponentsIdle

\* ------------------------------------------------------- bounded enqueue
\* queue.Queue(maxsize=...) of the worker.
Capacity(w) == IF w = "sftp" THEN UploadQueueMax ELSE QueueMax

\* Outcome of put_nowait behind the _running check.
EnqueueOutcome(w, queue) ==
    IF ~running[w] THEN "not_running"
    ELSE IF Len(queue) < Capacity(w) THEN "ok"
    ELSE "full"

QueueAfter(queue, item, outcome) ==
    IF outcome = "ok" THEN Append(queue, item) ELSE queue

\* The except queue.Full branch counts a drop only in the detector and
\* the classifier thread.
CountsDropped(w) == w = "detector" \/ w = "classifier"

StatsAfterEnqueue(st, w, outcome) ==
    IF outcome = "ok" THEN [st EXCEPT ![w].total_queued = @ + 1]
    ELSE IF outcome = "full" /\ CountsDropped(w) THEN [st EXCEPT ![w].total_dropped = @ + 1]
    ELSE st

RejectedAfter(rej, w, outcome) ==
    IF outcome = "full" THEN [rej EXCEPT ![w] = @ + 1] ELSE rej

\* ---------------------------------------------------------------- ingest
\* An ingest thread of the key is inside the chunk loop of its stream.
Streaming(s) == \E t \in DOMAIN ingest : ingest[t].key = s /\ ingest[t].pc = "stream"

\* Variant of GateOpen that admits a frame as soon as time has not run back.
GateOpen_NoWait(last) == now - last >= 0

\* if current_time - last_model_processing_time >= processing_interval
GateOpen(last) == now - last >= image_processing_interval

Tick ==
    /\ now < MaxTime
    /\ now' = now + 1
    /\ UNCHANGED <<taskVars, workerVars, shutdownVars, compVars>>
    /\ UNCHANGED <<sampled, sftp_server_info, pend, last_model_processing_time,
                   last_classifier_processing_time, detection_queue,
                   classification_queue, csv_queue, upload_queue, running, stats,
                   rejected_full, active_csv_files, files, created, faults>>

\* process_video_stream_background: the detector gate admits the frame
\* and the frame is stamped (processing_timestamp = datetime.now()).
SampleModel(s, frame) ==
    /\ Streaming(s)
    /\ HasModel(s)
    /\ pend[s] = <<>>
    /\ sampled < MaxFrames
    /\ GateOpen(last_model_processing_time[s])
    /\ pend' = [pend EXCEPT ![s] = << [stage |-> "model", src |-> s, frame |-> frame,
                                       settings |-> SettingsOf(s), timestamp |-> now,
                                       sftp_server_info |-> sftp_server_info] >>]
    /\ sampled' = sampled + 1
    /\ handed' = [handed EXCEPT ![s]["model"] = <<now>>]
    /\ UNCHANGED <<taskVars, workerVars, shutdownVars, uploadVars, streamVars, sceneVars, extraVars>>
    /\ UNCHANGED <<now, sftp_server_info, last_model_processing_time,
                   last_classifier_processing_time, detection_queue,
                   classification_queue, csv_queue, upload_queue, running, stats,
                   rejected_full, active_csv_files, files, created, faults>>

\* _queue_model_detection -> ModelDetectorThread.queue_detection, then
\* last_model_processing_time = current_time.
QueueModel(s) ==
    /\ pend[s] # <<>>
    /\ pend[s][1].stage = "model"
    /\ LET request == pend[s][1]
           outcome == EnqueueOutcome("detector", detection_queue)
       IN  /\ detection_queue' = QueueAfter(detection_queue, request, outcome)
           /\ stats' = StatsAfterEnqueue(stats, "detector", outcome)
           /\ rejected_full' = RejectedAfter(rejected_full, "detector", outcome)
           /\ last_model_processing_time' =
                  [last_model_processing_time EXCEPT ![s] = request.timestamp]
    /\ pend' = [pend EXCEPT ![s] = <<>>]
    /\ UNCHANGED <<taskVars, workerVars, shutdownVars, compVars>>
    /\ UNCHANGED <<now, sampled, sftp_server_info, last_classifier_processing_time,
                   classification_queue, csv_queue, upload_queue, running,
                   active_csv_files, files, created, faults>>

SampleClassifier(s) ==
    /\ Streaming(s)
    /\ HasClassifier(s)
    /\ pend[s] = <<>>
    /\ sampled < MaxFrames
    /\ GateOpen(last_classifier_processing_time[s])
    /\ pend' = [pend EXCEPT ![s] = << [stage |-> "classifier", src |-> s,
                                       timestamp |-> now,
                                       sftp_server_info |-> sftp_server_info] >>]
    /\ sampled' = sampled + 1
    /\ handed' = [handed EXCEPT ![s]["classifier"] = <<now>>]
    /\ UNCHANGED <<taskVars, workerVars, shutdownVars, uploadVars, streamVars, sceneVars, extraVars>>
    /\ UNCHANGED <<now, sftp_server_info, last_model_processing_time,
                   last_classifier_processing_time, detection_queue,
                   classification_queue, csv_queue, upload_queue, running, stats,
                   rejected_full, active_csv_files, files, created, faults>>

\* _queue_classifier_processing -> ClassifierProcessorThread.queue_classification
QueueClassifier(s) ==
    /\ pend[s] # <<>>
    /\ pend[s][1].stage = "classifier"
    /\ LET request == pend[s][1]
           outcome == EnqueueOutcome("classifier", classification_queue)
       IN  /\ classification_queue' = QueueAfter(classification_queue, request, outcome)
           /\ stats' = StatsAfterEnqueue(stats, "classifier", outcome)
           /\ rejected_full' = RejectedAfter(rejected_full, "classifier", outcome)
           /\ last_classifier_processing_time' =
                  [last_classifier_processing_time EXCEPT ![s] = request.timestamp]
    /\ pend' = [pend EXCEPT ![s] = <<>>]
    /\ UNCHANGED <<taskVars, workerVars, shutdownVars, compVars>>
    /\ UNCHANGED <<now, sampled, sftp_server_info, last_model_processing_time,
                   detection_queue, csv_queue, upload_queue, running,
                   active_csv_files, files, created, faults>>

\* --------------------------------------------------------------- workers
\* One iteration of ModelDetectorThread._detector_worker: get a request,
\* run object_process_image, queue the CSV generation with a callback
\* built on a fresh previous_csv_tracker = {'path': None}, count it.
\* ok = FALSE is an exception raised by the inference.
\* DetectorProcess is what the iteration does with the request it got.
DetectorProcess(request, ok) ==
    /\ ok \/ faults < MaxFaults
    /\ faults' = IF ok THEN faults ELSE faults + 1
    /\ LET result == object_process_image(request.frame, request.settings)
           csv_request == [folder_type |-> "model", src |-> request.src,
                           timestamp |-> request.timestamp,
                           data |-> ResultForCsv(result),
                           settings |-> request.settings,
                           sftp_server_info |-> request.sftp_server_info,
                           previous_csv_tracker |-> NoPath]
           outcome == EnqueueOutcome("csv", csv_queue)
       IN  IF ok
           THEN /\ csv_queue' = QueueAfter(csv_queue, csv_request, outcome)
                /\ stats' = [StatsAfterEnqueue(stats, "csv", outcome)
                                EXCEPT !["detector"].total_processed = @ + 1]
                /\ rejected_full' = RejectedAfter(rejected_full, "csv", outcome)
           ELSE /\ stats' = [stats EXCEPT !["detector"].total_failed = @ + 1]
                /\ UNCHANGED <<csv_queue, rejected_full>>

DetectorWorker(ok) ==
    /\ worker_thread["detector"] # "exited"
    /\ detection_queue # <<>>
    /\ detection_queue' = Tail(detection_queue)
    /\ DetectorProcess(Head(detection_queue), ok)
    /\ UNCHANGED <<taskVars, workerVars, shutdownVars, compVars>>
    /\ UNCHANGED <<now, sampled, sftp_server_info, pend, last_model_processing_time,
                   last_classifier_processing_time, classification_queue,
                   upload_queue, running, active_csv_files, files, created>>

\* One iteration of ClassifierProcessorThread._classifier_worker;
\* belt_status is the tag classifier_process_image returns.
ClassifierWorker(ok, belt_status) ==
    /\ worker_thread["classifier"] # "exited"
    /\ classification_queue # <<>>
    /\ ok \/ faults < MaxFaults
    /\ faults' = IF ok THEN faults ELSE faults + 1
    /\ LET request == Head(classification_queue)
           csv_request == [folder_type |-> "classifier", src |-> request.src,
                           timestamp |-> request.timestamp,
                           data |-> belt_status,
                           sftp_server_info |-> request.sftp_server_info,
                           previous_csv_tracker |-> NoPath]
           outcome == EnqueueOutcome("csv", csv_queue)
       IN  /\ classification_queue' = Tail(classification_queue)
           /\ IF ok
              THEN /\ csv_queue' = QueueAfter(csv_queue, csv_request, outcome)
                   /\ stats' = [StatsAfterEnqueue(stats, "csv", outcome)
                                   EXCEPT !["classifier"].total_processed = @ + 1]
                   /\ rejected_full' = RejectedAfter(rejected_full, "csv", outcome)
              ELSE /\ stats' = [stats EXCEPT !["classifier"].total_failed = @ + 1]
                   /\ UNCHANGED <<csv_queue, rejected_full>>
    /\ UNCHANGED <<taskVars, workerVars, shutdownVars, compVars>>
    /\ UNCHANGED <<now, sampled, sftp_server_info, pend, last_model_processing_time,
                   last_classifier_processing_time, detection_queue,
                   upload_queue, running, active_csv_files, files, created>>

\* ---------------------------------------------------- IrisInputProcessor
\* Variant of DictSet that keeps the entry already stored under the key.
DictSet_KeepOld(dict, key, value) == dict \cup {value}

\* active_csv_files[key] = value on a dict kept as a set of entries.
DictSet(dict, key, value) ==
    {e \in dict : e.folder_type # key} \cup {value}

\* _transform_model_data_to_dataframe: one row per particle, the i-th
\* particle paired with xyxy_data[i]; pd.DataFrame([]) has no 'xyxy'
\* column, so an empty particle list raises (see TransformRaises).
ModelRows(request) ==
    [i \in DOMAIN request.data.particles |->
        [kind |-> "row", src |-> request.src, timestamp |-> request.timestamp,
         xyxy |-> IF i <= Len(request.data.xyxy) THEN request.data.xyxy[i] ELSE <<>>,
         width_px |-> request.data.particles[i].width_px,
         height_px |-> request.data.particles[i].height_px,
         width_mm |-> request.data.particles[i].width_mm,
         height_mm |-> request.data.particles[i].height_mm,
         max_d_mm |-> request.data.particles[i].max_d_mm,
         settings |-> request.settings]]

ClassifierRows(request) ==
    << [kind |-> "row", src |-> request.src, timestamp |-> request.timestamp,
        data |-> request.data] >>

RequestRows(request) ==
    IF request.folder_type = "model" THEN ModelRows(request) ELSE ClassifierRows(request)

TransformRaises(request) ==
    request.folder_type = "model" /\ request.data.particles = <<>>

\* Variant of IntervalElapsed with a strict comparison.
IntervalElapsed_Strict(entry) == now - entry.start_time > csv_interval_seconds

\* if elapsed_seconds >= csv_interval_seconds: create_new_file = True
IntervalElapsed(entry) == now - entry.start_time >= csv_interval_seconds

\* create_iris_csv_input, reached through generate_iris_input_data with a
\* configured project. fail is the I/O fault met by this call: "mkdir"
\* (raised before the file is chosen), "write" (raised when the file is
\* opened for writing) or "none". Returns the new tracking dict, the new
\* file contents and csv_path (NoPath for the None of the except branch).
\* except Exception: return None. What the handler leaves in
\* active_csv_files of the dict as it stood when the write raised.
OnWriteError_Close(tracked, folder_type) ==
    {e \in tracked : e.folder_type # folder_type}

OnWriteError(tracked, folder_type) == tracked

create_iris_csv_input(request, fail) ==
    LET folder_type == request.folder_type
        active == {e \in active_csv_files : e.folder_type = folder_type}
        create_new_file == active = {} \/ \E e \in active : IntervalElapsed(e)
        csv_filepath == IF create_new_file
                        THEN CsvPath(folder_type, request.timestamp)
                        ELSE (CHOOSE e \in active : TRUE).path
        entry == [folder_type |-> folder_type, path |-> csv_filepath,
                  start_time |-> now, src |-> request.src]
        tracked == IF create_new_file
                   THEN DictSet(active_csv_files, folder_type, entry)
                   ELSE active_csv_files
        log == IF create_new_file THEN Append(created, entry) ELSE created
        rows == RequestRows(request)
    IN  IF fail = "mkdir"
        THEN [active_csv_files |-> active_csv_files, files |-> files,
              created |-> created, csv_path |-> NoPath]
        ELSE IF fail = "write" \/ TransformRaises(request)
        THEN [active_csv_files |-> OnWriteError(tracked, folder_type), files |-> files,
              created |-> log, csv_path |-> NoPath]
        ELSE [active_csv_files |-> tracked,
              files |-> [files EXCEPT ![csv_filepath] =
                            IF create_new_file THEN <<Header>> \o rows ELSE @ \o rows],
              created |-> log, csv_path |-> csv_filepath]

\* on_model_csv_complete / on_classifier_csv_complete: the path to offer
\* to SftpUploaderThread.queue_upload, or NoPath when the closure offers
\* nothing. The closure's tracker is the dict made for this one request.
CallbackOffer(request) ==
    IF request.previous_csv_tracker # NoPath /\ request.sftp_server_info # NoServer
    THEN request.previous_csv_tracker
    ELSE NoPath

\* One iteration of CsvWriterThread._csv_worker: get a request, generate
\* the CSV, count it, call the callback when a path came back.
CsvWorker(fail) ==
    /\ worker_thread["csv"] # "exited"
    /\ csv_queue # <<>>
    /\ fail = "none" \/ faults < MaxFaults
    /\ faults' = IF fail = "none" THEN faults ELSE faults + 1
    /\ LET request == Head(csv_queue)
           r == create_iris_csv_input(request, fail)
           offer == IF r.csv_path # NoPath THEN CallbackOffer(request) ELSE NoPath
           outcome == EnqueueOutcome("sftp", upload_queue)
           upload_request == [file_path |-> offer, folder_type |-> request.folder_type,
                              sftp_server_info |-> request.sftp_server_info]
           st == IF r.csv_path # NoPath
                 THEN [stats EXCEPT !["csv"].total_written = @ + 1]
                 ELSE [stats EXCEPT !["csv"].total_failed = @ + 1]
       IN  /\ csv_queue' = Tail(csv_queue)
           /\ active_csv_files' = r.active_csv_files
           /\ files' = r.files
           /\ created' = r.created
           /\ IF offer # NoPath
              THEN /\ upload_queue' = QueueAfter(upload_queue, upload_request, outcome)
                   /\ stats' = StatsAfterEnqueue(st, "sftp", outcome)
                   /\ rejected_full' = RejectedAfter(rejected_full, "sftp", outcome)
              ELSE /\ stats' = st
                   /\ UNCHANGED <<upload_queue, rejected_full>>
    /\ UNCHANGED <<taskVars, workerVars, shutdownVars, compVars>>
    /\ UNCHANGED <<now, sampled, sftp_server_info, pend, last_model_processing_time,
                   last_classifier_processing_time, detection_queue,
                   classification_queue, running>>

\* ------------------------------------------------------- thread manager
\* ThreadManager.is_running: False for a key that is not tracked.
is_running(k) == threads[k] # NoTask /\ threads[k].running

\* ThreadManager.set_status: ignored for a key that is not tracked.
set_status(reg, k, status) ==
    IF reg[k] # NoTask THEN [reg EXCEPT ![k].status = status] ELSE reg

Alive(t) == ingest[t].pc # "dead"

\* Launches and clearings of the running flag, counted per key.
LogLaunch(k) == [task_log EXCEPT !.launched[k] = @ + 1, !.after_stop[k] = NoTask]
LogClear(k) ==
    IF is_running(k) THEN [task_log EXCEPT !.cleared[k] = @ + 1] ELSE task_log

\* Variant of CanStart without the check made under the registry lock.
CanStart_Unchecked(k) == TRUE

\* ThreadManager.start_thread refuses a key whose record is running.
CanStart(k) == ~is_running(k)

\* Variant of ProbeOk that accepts every response of the server.
ProbeOk_AnyResponse(outcome) == outcome \in {"200", "non200"}

\* start_thread (route): the probe passes only on a 200 response.
ProbeOk(outcome) == outcome = "200"

\* SocketManager._close_stream(stream_id, response): the entry stored
\* under the id is removed and the response given (else the one stored)
\* is closed.
CloseStreamEntry(streams, k) == [streams EXCEPT ![k] = NoResponse]
ClosedWith(closed, response) ==
    IF response # NoResponse THEN closed \cup {response} ELSE closed

\* ------------------------------------------------------------ /start-thread
\* start_thread (route), first part: the is_running check (400).
StartCheck(c, k) ==
    /\ start_call[c].pc = "idle"
    /\ task_log.start_calls + task_log.stop_calls < MaxCalls
    /\ start_call' = [start_call EXCEPT ![c] =
                         IF is_running(k)
                         THEN [IdleStart EXCEPT !.key = k, !.result = "400"]
                         ELSE [IdleStart EXCEPT !.key = k, !.pc = "probe"]]
    /\ task_log' = [task_log EXCEPT !.start_calls = @ + 1]
    /\ UNCHANGED <<threads, ingest, active_streams, closed_responses, stop_call>>
    /\ UNCHANGED <<pipeVars, workerVars, shutdownVars, compVars>>

\* start_thread (route), second part: socket_manager.get on the health
\* URL; any failure answers 503.
StartProbe(c, outcome) ==
    /\ start_call[c].pc = "probe"
    /\ start_call' = [start_call EXCEPT ![c] =
                         IF ProbeOk(outcome)
                         THEN [@ EXCEPT !.pc = "start", !.probe = outcome]
                         ELSE [@ EXCEPT !.pc = "idle", !.probe = outcome, !.result = "503"]]
    /\ singletons' = [singletons EXCEPT !.sessions = TRUE]
    /\ UNCHANGED <<threads, ingest, active_streams, closed_responses, stop_call,
                   task_log, cleanup>>
    /\ UNCHANGED <<pipeVars, workerVars, compVars>>

\* start_thread (route), last part: ThreadManager.start_thread creates the
\* record and starts the thread under the registry lock, or refuses (500).
StartCreate(c) ==
    /\ start_call[c].pc = "start"
    /\ LET k == start_call[c].key
           t == Len(ingest) + 1
       IN  IF CanStart(k)
           THEN /\ threads' = [threads EXCEPT ![k] = TaskRecord(t)]
                /\ ingest' = Append(ingest, IngestThread(k, "wrapper"))
                /\ task_log' = LogLaunch(k)
                /\ start_call' = [start_call EXCEPT ![c].pc = "idle", ![c].result = "ok"]
           ELSE /\ start_call' = [start_call EXCEPT ![c].pc = "idle", ![c].result = "500"]
                /\ UNCHANGED <<threads, ingest, task_log>>
    /\ UNCHANGED <<active_streams, closed_responses, stop_call>>
    /\ UNCHANGED <<pipeVars, workerVars, shutdownVars, compVars>>

\* ------------------------------------------------------------ ingest thread
\* ThreadManager._thread_wrapper, before the target runs.
WrapperBegin(t) ==
    /\ ingest[t].pc = "wrapper"
    /\ threads' = set_status(threads, ingest[t].key, "running")
    /\ ingest' = [ingest EXCEPT ![t].pc = "begin"]
    /\ UNCHANGED <<active_streams, closed_responses, start_call, stop_call, task_log>>
    /\ UNCHANGED <<pipeVars, workerVars, shutdownVars, compVars>>

\* process_video_stream_background up to the retry loop.
IngestBegin(t) ==
    /\ ingest[t].pc = "begin"
    /\ threads' = set_status(threads, ingest[t].key, "running")
    /\ ingest' = [ingest EXCEPT ![t].pc = "loop"]
    /\ UNCHANGED <<active_streams, closed_responses, start_call, stop_call, task_log>>
    /\ UNCHANGED <<pipeVars, workerVars, shutdownVars, compVars>>

\* Top of the retry loop: leave when the running flag is cleared.
IngestLoop(t) ==
    /\ ingest[t].pc = "loop"
    /\ ingest' = [ingest EXCEPT ![t].pc =
                     IF is_running(ingest[t].key) THEN "connect" ELSE "cleanup"]
    /\ UNCHANGED <<threads, active_streams, closed_responses, start_call, stop_call,
                   task_log>>
    /\ UNCHANGED <<pipeVars, workerVars, shutdownVars, compVars>>

\* SocketManager.stream up to the first chunk: session.get, then the
\* response is tracked under the stream id; a failure runs the finally
\* (_close_stream without a response) and reaches the handlers.
IngestConnect(t, outcome) ==
    /\ ingest[t].pc = "connect"
    /\ LET k == ingest[t].key
       IN  IF outcome = "ok"
           THEN /\ active_streams' = [active_streams EXCEPT ![k] = t]
                /\ ingest' = [ingest EXCEPT ![t].pc = "stream"]
                /\ UNCHANGED closed_responses
           ELSE /\ active_streams' = CloseStreamEntry(active_streams, k)
                /\ closed_responses' = ClosedWith(closed_responses, active_streams[k])
                /\ ingest' = [ingest EXCEPT ![t].pc = "except", ![t].exc = outcome]
    /\ singletons' = [singletons EXCEPT !.sessions = TRUE]
    /\ UNCHANGED <<threads, start_call, stop_call, task_log, cleanup>>
    /\ UNCHANGED <<pipeVars, workerVars, compVars>>

\* The stop check of the chunk loop finds the flag cleared: break; the
\* generator's finally closes the stream.
IngestObserveStop(t) ==
    /\ ingest[t].pc = "stream"
    /\ pend[ingest[t].key] = <<>>
    /\ t \notin closed_responses
    /\ ~is_running(ingest[t].key)
    /\ active_streams' = CloseStreamEntry(active_streams, ingest[t].key)
    /\ closed_responses' = ClosedWith(closed_responses, t)
    /\ ingest' = [ingest EXCEPT ![t].pc = "cleanup"]
    /\ UNCHANGED <<threads, start_call, stop_call, task_log>>
    /\ UNCHANGED <<pipeVars, workerVars, shutdownVars, compVars>>

\* iter_content ends or raises: the upstream closed the stream ("end"),
\* failed (StreamErrors), or the response was closed under the reader,
\* which ends the iteration or raises, depending on where the read stood.
IngestStreamEnds(t, outcome) ==
    /\ ingest[t].pc = "stream"
    /\ pend[ingest[t].key] = <<>>
    /\ t \in closed_responses => outcome # "timeout"
    /\ active_streams' = CloseStreamEntry(active_streams, ingest[t].key)
    /\ closed_responses' = ClosedWith(closed_responses, t)
    /\ ingest' = [ingest EXCEPT ![t] =
                     IF outcome = "end"
                     THEN [@ EXCEPT !.pc = "cleanup"]
                     ELSE [@ EXCEPT !.pc = "except", !.exc = outcome,
                                    !.forced = t \in closed_responses]]
    /\ UNCHANGED <<threads, start_call, stop_call, task_log>>
    /\ UNCHANGED <<pipeVars, workerVars, shutdownVars, compVars>>

\* The status the except clauses of process_video_stream_background set.
HandlerStatus(exc, k) ==
    IF exc = "connection_error" THEN "error: server unreachable"
    ELSE IF ~is_running(k) THEN "none"
    ELSE IF exc = "timeout" THEN "error: timeout"
    ELSE "error: exception"

\* Every except clause ends in break: the thread goes on to the finally.
AfterHandler_Retry == "loop"

AfterHandler == "cleanup"

IngestExcept(t) ==
    /\ ingest[t].pc = "except"
    /\ LET k == ingest[t].key
           status == HandlerStatus(ingest[t].exc, k)
       IN  /\ threads' = IF status = "none" THEN threads ELSE set_status(threads, k, status)
           /\ ingest' = [ingest EXCEPT ![t].pc = AfterHandler, ![t].exc = "none",
                                       ![t].forced = FALSE,
                                       ![t].error_status =
                                           IF threads[k] # NoTask THEN status ELSE "none"]
    /\ UNCHANGED <<active_streams, closed_responses, start_call, stop_call, task_log>>
    /\ UNCHANGED <<pipeVars, workerVars, shutdownVars, compVars>>

\* SocketManager.close_stream(stream_id): the response stored under the
\* id is closed and the entry removed.
close_stream(k) ==
    /\ active_streams' = CloseStreamEntry(active_streams, k)
    /\ closed_responses' = ClosedWith(closed_responses, active_streams[k])

\* _cleanup_processing_resources: close_stream(thread_id).
IngestCleanup(t) ==
    /\ ingest[t].pc = "cleanup"
    /\ close_stream(ingest[t].key)
    /\ ingest' = [ingest EXCEPT ![t].pc = "finally"]
    /\ UNCHANGED <<threads, start_call, stop_call, task_log>>
    /\ UNCHANGED <<pipeVars, workerVars, shutdownVars, compVars>>

\* ThreadManager._thread_wrapper, finally: the record is marked stopped.
WrapperFinally(t) ==
    /\ ingest[t].pc = "finally"
    /\ LET k == ingest[t].key
       IN  /\ threads' = IF threads[k] # NoTask
                         THEN [threads EXCEPT ![k].running = FALSE,
                                              ![k].status = "stopped"]
                         ELSE threads
           /\ task_log' = LogClear(k)
    /\ ingest' = [ingest EXCEPT ![t].pc = "dead"]
    /\ UNCHANGED <<active_streams, closed_responses, start_call, stop_call>>
    /\ UNCHANGED <<pipeVars, workerVars, shutdownVars, compVars>>

\* ------------------------------------------------------------- /stop-thread
\* stop_thread (route), first part: socket_manager.close_stream(thread_id).
StopClose(k) ==
    /\ stop_call.pc = "idle"
    /\ task_log.start_calls + task_log.stop_calls < MaxCalls
    /\ close_stream(k)
    /\ stop_call' = [IdleStop EXCEPT !.pc = "signal", !.key = k]
    /\ task_log' = [task_log EXCEPT !.stop_calls = @ + 1]
    /\ UNCHANGED <<threads, ingest, start_call>>
    /\ UNCHANGED <<pipeVars, workerVars, shutdownVars, compVars>>

\* What a returning stop call leaves in the log: the record as it stands.
LogStopped(log, k, reg) == [log EXCEPT !.after_stop[k] = reg[k]]

\* ThreadManager.stop_thread, first locked section.
StopSignal ==
    /\ stop_call.pc = "signal"
    /\ LET k == stop_call.key
       IN  IF threads[k] = NoTask
           THEN /\ stop_call' = [stop_call EXCEPT !.pc = "idle", !.result = "true"]
                /\ task_log' = LogStopped(task_log, k, threads)
                /\ UNCHANGED threads
           ELSE LET reg == [threads EXCEPT ![k].running = FALSE, ![k].status = "stopping"]
                IN  /\ threads' = reg
                    /\ IF ~threads[k].running
                       THEN /\ stop_call' = [stop_call EXCEPT !.pc = "idle", !.result = "true"]
                            /\ task_log' = LogStopped(LogClear(k), k, reg)
                       ELSE /\ stop_call' = [stop_call EXCEPT !.pc = "join",
                                                              !.thread = threads[k].thread]
                            /\ task_log' = LogClear(k)
    /\ UNCHANGED <<ingest, active_streams, closed_responses, start_call>>
    /\ UNCHANGED <<pipeVars, workerVars, shutdownVars, compVars>>

\* Positions where an ingest thread waits on the database, the upstream
\* server or the model files for longer than a join timeout.
Blocked(t) == ingest[t].pc \in {"begin", "connect", "stream"}

\* thread_obj.join(timeout): returns when the thread has ended, or after
\* the timeout with the thread alive (stop_thread then returns False).
StopJoin(timed_out) ==
    /\ stop_call.pc = "join"
    /\ IF timed_out THEN Blocked(stop_call.thread) ELSE ~Alive(stop_call.thread)
    /\ stop_call' = IF timed_out
                    THEN [stop_call EXCEPT !.pc = "idle", !.result = "false"]
                    ELSE [stop_call EXCEPT !.pc = "mark"]
    /\ UNCHANGED <<threads, ingest, active_streams, closed_responses, start_call, task_log>>
    /\ UNCHANGED <<pipeVars, workerVars, shutdownVars, compVars>>

\* ThreadManager.stop_thread, last locked section.
StopMark ==
    /\ stop_call.pc = "mark"
    /\ LET k == stop_call.key
           reg == set_status(threads, k, "stopped")
       IN  /\ threads' = reg
           /\ task_log' = LogStopped(task_log, k, reg)
    /\ stop_call' = [stop_call EXCEPT !.pc = "idle", !.result = "true"]
    /\ UNCHANGED <<ingest, active_streams, closed_responses, start_call>>
    /\ UNCHANGED <<pipeVars, workerVars, shutdownVars, compVars>>

\* ------------------------------------------------------------------ spec
Next ==
    \/ Tick
    \/ \E s \in Sources, frame \in Frames : SampleModel(s, frame)
    \/ \E s \in Sources : QueueModel(s)
    \/ \E s \in Sources : SampleClassifier(s)
    \/ \E s \in Sources : QueueClassifier(s)
    \/ \E ok \in BOOLEAN : DetectorWorker(ok)
    \/ \E ok \in BOOLEAN, belt_status \in BeltStatuses : ClassifierWorker(ok, belt_status)
    \/ \E fail \in {"none", "mkdir", "write"} : CsvWorker(fail)

Spec == Init /\ [][Next]_vars

\* The supervisor alone: tasks are started and stopped through the two
\* routes, no frame passes the sampling gates.
InitTasks ==
    /\ PipelineInit
    /\ WorkersStarted
    /\ NoTasks
    /\ ComponentsIdle

NextTasks ==
    \/ \E c \in StartCallers, k \in RequestKeys : StartCheck(c, k)
    \/ \E c \in StartCallers, outcome \in ProbeOutcomes : StartProbe(c, outcome)
    \/ \E c \in StartCallers : StartCreate(c)
    \/ \E t \in DOMAIN ingest : WrapperBegin(t)
    \/ \E t \in DOMAIN ingest : IngestBegin(t)
    \/ \E t \in DOMAIN ingest : IngestLoop(t)
    \/ \E t \in DOMAIN ingest, outcome \in {"ok"} \cup StreamErrors : IngestConnect(t, outcome)
    \/ \E t \in DOMAIN ingest : IngestObserveStop(t)
    \/ \E t \in DOMAIN ingest, outcome \in {"end"} \cup StreamErrors : IngestStreamEnds(t, outcome)
    \/ \E t \in DOMAIN ingest : IngestExcept(t)
    \/ \E t \in DOMAIN ingest : IngestCleanup(t)
    \/ \E t \in DOMAIN ingest : WrapperFinally(t)
    \/ \E k \in RequestKeys : StopClose(k)
    \/ StopSignal
    \/ StopJoin(TRUE)
    \/ StopJoin(FALSE)
    \/ StopMark

SpecTasks == InitTasks /\ [][NextTasks]_vars

\* ------------------------------------------------------ derived notions
QueueOf(w) ==
    IF w = "detector" THEN detection_queue
    ELSE IF w = "classifier" THEN classification_queue
    ELSE IF w = "csv" THEN csv_queue
    ELSE upload_queue

Queued(w) == stats[w].total_queued
Failed(w) == stats[w].total_failed
Done(w) ==
    IF w = "csv" THEN stats[w].total_written
    ELSE IF w = "sftp" THEN stats[w].total_uploaded
    ELSE stats[w].total_processed
Dropped(w) ==
    IF "total_dropped" \in DOMAIN stats[w] THEN stats[w].total_dropped ELSE 0

\* accepted items not yet counted as processed or failed
InFlight(w) == Len(QueueOf(w))

IsRow(line) == line.kind = "row"
DataRows(p) == SelectSeq(files[p], IsRow)

\* created[j] is the file that replaced created[i] in the tracking dict
Replaces(i, j) ==
    /\ i < j
    /\ created[i].folder_type = created[j].folder_type
    /\ \A k \in (i + 1)..(j - 1) : created[k].folder_type # created[i].folder_type

Offers(path) == Cardinality({k \in DOMAIN upload_queue : upload_queue[k].file_path = path})

\* ------------------------------------------------- worker stop and drain
\* Order in which cleanup_threads stops the queue workers.
WorkerOrder == <<"detector", "classifier", "csv", "sftp">>

Handled(w) == Done(w) + Failed(w)

\* The worker is between two requests (the uploader is inside
\* transferData while a job is in transfer).
BetweenRequests(w) == w = "sftp" => transfers.current = NoJob

\* The worker loop finds the stop event set and goes on to drain.
WorkerObserveStop(w) ==
    /\ worker_thread[w] = "loop"
    /\ stop_event[w]
    /\ BetweenRequests(w)
    /\ worker_thread' = [worker_thread EXCEPT ![w] = "drain"]
    /\ UNCHANGED <<stop_event, at_stop>>
    /\ UNCHANGED <<pipeVars, taskVars, shutdownVars, compVars>>

\* Variant of DrainDone that ends the worker without looking at the queue.
DrainDone_Skip(w) == TRUE

\* The drain loop of the worker ends when the queue is empty.
DrainDone(w) == QueueOf(w) = <<>> /\ BetweenRequests(w)

WorkerExit(w) ==
    /\ worker_thread[w] = "drain"
    /\ DrainDone(w)
    /\ worker_thread' = [worker_thread EXCEPT ![w] = "exited"]
    /\ UNCHANGED <<stop_event, at_stop>>
    /\ UNCHANGED <<pipeVars, taskVars, shutdownVars, compVars>>

\* ----------------------------------------------------------- cleanup_threads
\* The interrupt handler calls cleanup_threads.
Interrupt ==
    /\ cleanup.pc = "idle"
    /\ cleanup' = [cleanup EXCEPT !.pc = "stop_all"]
    /\ UNCHANGED singletons
    /\ UNCHANGED <<pipeVars, taskVars, workerVars, compVars>>

Begin(step) == [cleanup EXCEPT !.begun = Append(@, step)]

\* ThreadManager.stop_all_threads, locked section: every record gets
\* running = False and status 'stopping'.
StopAllSignal ==
    /\ cleanup.pc = "stop_all"
    /\ LET tracked == {k \in Sources : threads[k] # NoTask}
           ids == KeySeq(tracked)
       IN  /\ threads' = [k \in Sources |->
                             IF k \in tracked
                             THEN [threads[k] EXCEPT !.running = FALSE, !.status = "stopping"]
                             ELSE threads[k]]
           /\ task_log' = [task_log EXCEPT !.cleared =
                              [k \in Sources |-> IF is_running(k) THEN @[k] + 1 ELSE @[k]]]
           /\ cleanup' = [Begin("supervisor") EXCEPT
                             !.pc = IF ids = <<>> THEN "stop" ELSE "stop_all_join",
                             !.waiting = ids]
    /\ UNCHANGED <<ingest, active_streams, closed_responses, start_call, stop_call,
                   singletons>>
    /\ UNCHANGED <<pipeVars, workerVars, compVars>>

\* ThreadManager.stop_all_threads, one round of the waiting loop: the
\* timed join, then status 'stopped' whatever the join found.
StopAllJoin(timed_out) ==
    /\ cleanup.pc = "stop_all_join"
    /\ LET k == Head(cleanup.waiting)
           t == threads[k].thread
       IN  /\ IF timed_out THEN Blocked(t) ELSE ~Alive(t)
           /\ threads' = set_status(threads, k, "stopped")
           /\ cleanup' = [cleanup EXCEPT
                             !.waiting = Tail(@),
                             !.pc = IF Tail(cleanup.waiting) = <<>> THEN "stop" ELSE @]
    /\ UNCHANGED <<ingest, active_streams, closed_responses, start_call, stop_call,
                   task_log, singletons>>
    /\ UNCHANGED <<pipeVars, workerVars, compVars>>

\* The worker cleanup_threads turns to next, and the step after the last.
NextWorker == WorkerOrder[Len(cleanup.joined) + 1]
AfterStop(joined) == IF Len(joined) = Len(WorkerOrder) THEN "streams" ELSE "stop"

\* "if worker.is_running(): worker.stop(timeout)", up to the join: the
\* stop event is set under the lock.
WorkerStop ==
    /\ cleanup.pc = "stop"
    /\ LET w == NextWorker
       IN  IF running[w]
           THEN /\ stop_event' = [stop_event EXCEPT ![w] = TRUE]
                /\ at_stop' = [at_stop EXCEPT
                                  ![w] = [queue |-> QueueOf(w), handled |-> Handled(w)]]
                /\ cleanup' = [Begin(w) EXCEPT !.pc = "join"]
           ELSE /\ cleanup' = [cleanup EXCEPT
                                  !.joined = Append(@, "skipped"),
                                  !.pc = AfterStop(Append(cleanup.joined, "skipped"))]
                /\ UNCHANGED <<stop_event, at_stop>>
    /\ UNCHANGED <<worker_thread, singletons>>
    /\ UNCHANGED <<pipeVars, taskVars, compVars>>

\* A worker with requests left in its queue can outlast the join timeout.
Busy(w) == worker_thread[w] # "exited" /\ (QueueOf(w) # <<>> \/ ~BetweenRequests(w))

\* Variant of Joined that takes a worker with an empty queue for ended.
Joined_IfIdle(w) == worker_thread[w] = "exited" \/ QueueOf(w) = <<>>

\* self._thread.join(timeout) returned with the thread no longer alive.
Joined(w) == worker_thread[w] = "exited"

\* stop(), from the join on: False after a timeout, else _running is
\* cleared and True returned.
WorkerJoin(timed_out) ==
    /\ cleanup.pc = "join"
    /\ LET w == NextWorker
           result == IF timed_out THEN "false" ELSE "true"
       IN  /\ IF timed_out THEN Busy(w) ELSE Joined(w)
           /\ running' = IF timed_out THEN running ELSE [running EXCEPT ![w] = FALSE]
           /\ cleanup' = [cleanup EXCEPT
                             !.joined = Append(@, result),
                             !.pc = AfterStop(Append(cleanup.joined, result))]
    /\ UNCHANGED <<now, sampled, sftp_server_info, pend, last_model_processing_time,
                   last_classifier_processing_time, detection_queue, classification_queue,
                   csv_queue, upload_queue, stats, rejected_full, active_csv_files,
                   files, created, faults>>
    /\ UNCHANGED singletons
    /\ UNCHANGED <<taskVars, workerVars, compVars>>

\* SocketManager.shutdown, first half: close_all_streams.
CloseAllStreams ==
    /\ cleanup.pc = "streams"
    /\ active_streams' = [k \in Sources |-> NoResponse]
    /\ closed_responses' = closed_responses \cup
                               ({active_streams[k] : k \in Sources} \ {NoResponse})
    /\ cleanup' = [Begin("streams") EXCEPT !.pc = "sessions"]
    /\ UNCHANGED <<threads, ingest, start_call, stop_call, task_log, singletons>>
    /\ UNCHANGED <<pipeVars, workerVars, compVars>>

\* SocketManager.shutdown, second half: close_all_sessions.
CloseAllSessions ==
    /\ cleanup.pc = "sessions"
    /\ singletons' = [singletons EXCEPT !.sessions = FALSE]
    /\ cleanup' = [Begin("sessions") EXCEPT !.pc = "health"]
    /\ UNCHANGED <<pipeVars, taskVars, workerVars, compVars>>

\* health_service.stop_all()
HealthStopAll ==
    /\ cleanup.pc = "health"
    /\ singletons' = [singletons EXCEPT !.health = FALSE]
    /\ cleanup' = [Begin("health") EXCEPT !.pc = "logger"]
    /\ UNCHANGED <<pipeVars, taskVars, workerVars, compVars>>

\* logger.stop()
LoggerStop ==
    /\ cleanup.pc = "logger"
    /\ singletons' = [singletons EXCEPT !.logger = FALSE]
    /\ cleanup' = [Begin("logger") EXCEPT !.pc = "done"]
    /\ UNCHANGED <<pipeVars, taskVars, workerVars, compVars>>

\* Shutdown on interrupt: the simulator task (detector only) is streaming,
\* the workers run, and cleanup_threads goes through the components.
InitShutdown ==
    /\ PipelineInit
    /\ WorkersStarted
    /\ TasksStreaming({"simulator_0"})
    /\ ComponentsIdle

NextShutdown ==
    \/ \E s \in Sources, frame \in Frames : SampleModel(s, frame)
    \/ \E s \in Sources : QueueModel(s)
    \/ \E ok \in BOOLEAN : DetectorWorker(ok)
    \/ \E fail \in {"none", "mkdir", "write"} : CsvWorker(fail)
    \/ \E w \in Workers : WorkerObserveStop(w)
    \/ \E w \in Workers : WorkerExit(w)
    \/ \E t \in DOMAIN ingest : IngestObserveStop(t)
    \/ \E t \in DOMAIN ingest : IngestStreamEnds(t, "end")
    \/ \E t \in DOMAIN ingest : IngestCleanup(t)
    \/ \E t \in DOMAIN ingest : WrapperFinally(t)
    \/ Interrupt
    \/ StopAllSignal
    \/ StopAllJoin(TRUE)
    \/ StopAllJoin(FALSE)
    \/ WorkerStop
    \/ WorkerJoin(TRUE)
    \/ WorkerJoin(FALSE)
    \/ CloseAllStreams
    \/ CloseAllSessions
    \/ HealthStopAll
    \/ LoggerStop

SpecShutdown == InitShutdown /\ [][NextShutdown]_vars

\* ---------------------------------------------------------------- chunk loop
\* Bytes of the stream: "B" stands for the boundary b'--frame', "d" for a
\* byte of anything else.
Bytes == {"B", "d"}
Chunks == UNION {[1..n -> Bytes] : n \in 1..MaxChunkLen}

\* buffer[-n:] of Python for n > 0: the last n bytes, or all of a shorter buffer.
LastBytes(buffer, n) ==
    IF Len(buffer) <= n THEN buffer
    ELSE SubSeq(buffer, Len(buffer) - n + 1, Len(buffer))

\* Variant of Truncate that leaves the buffer as it is.
Truncate_Never(buffer) == buffer

\* if len(buffer) > MAX_BUFFER_SIZE: buffer = buffer[-MAX_BUFFER_SIZE//2:]
\* (the slice index is (-MAX_BUFFER_SIZE) // 2, rounded down).
Truncate(buffer) ==
    IF Len(buffer) > STREAM_MAX_BUFFER_SIZE
    THEN LastBytes(buffer, 0 - ((0 - STREAM_MAX_BUFFER_SIZE) \div 2))
    ELSE buffer

\* buffer.find(boundary, from): the first boundary at or after the
\* position (1-based), 0 when there is none.
Find(buffer, from) ==
    LET hits == {i \in from..Len(buffer) : buffer[i] = "B"}
    IN  IF hits = {} THEN 0 ELSE CHOOSE i \in hits : \A j \in hits : i <= j

\* while boundary in buffer: every frame that is closed by a following
\* boundary is cut off the front of the buffer.
RECURSIVE ExtractFrames(_)
ExtractFrames(buffer) ==
    LET start == Find(buffer, 1)
        end == IF start = 0 THEN 0 ELSE Find(buffer, start + 1)
    IN  IF end = 0 THEN buffer
        ELSE ExtractFrames(SubSeq(buffer, end, Len(buffer)))

\* The stop flag the thread was launched under has been cleared: launches
\* and clearings of a key's flag alternate, and thread t is launch t.
StopSignalled(t) == task_log.cleared[ingest[t].key] >= t

\* One round of "for chunk in socket_manager.stream(...)": count the
\* chunk, every STREAM_CHUNK_CHECK_INTERVAL chunks check the stop flag
\* (break: the generator's finally closes the stream), else append the
\* chunk, truncate and cut the complete frames off the buffer. The frames
\* cut off are the ones SampleModel and SampleClassifier hand on.
ReadChunk(t, chunk) ==
    /\ t \in DOMAIN ingest
    /\ ingest[t].pc = "stream"
    /\ t \notin closed_responses
    /\ stream[t].chunk_count < MaxChunks
    /\ LET k == ingest[t].key
           chunk_count == stream[t].chunk_count + 1
           stop == chunk_count % STREAM_CHUNK_CHECK_INTERVAL = 0 /\ ~is_running(k)
       IN  /\ stream' = [stream EXCEPT ![t] =
                  [chunk_count |-> chunk_count,
                   chunk |-> chunk,
                   since_stop |-> IF StopSignalled(t) THEN @.since_stop + 1 ELSE 0,
                   buffer |-> IF stop THEN @.buffer
                              ELSE ExtractFrames(Truncate(@.buffer \o chunk))]]
           /\ IF stop
              THEN /\ active_streams' = CloseStreamEntry(active_streams, k)
                   /\ closed_responses' = ClosedWith(closed_responses, t)
                   /\ ingest' = [ingest EXCEPT ![t].pc = "cleanup"]
              ELSE UNCHANGED <<active_streams, closed_responses, ingest>>
    /\ UNCHANGED <<threads, start_call, stop_call, task_log>>
    /\ UNCHANGED <<pipeVars, workerVars, shutdownVars, uploadVars, gateVars, sceneVars, extraVars>>

\* One task reads its stream, chunk by chunk, until the stream ends or
\* an interrupt clears its flag.
InitFramer ==
    /\ PipelineInit
    /\ WorkersStarted
    /\ TasksStreaming({"webcam_0"})
    /\ ComponentsIdle

NextFramer ==
    \/ \E t \in ThreadIds, chunk \in Chunks : ReadChunk(t, chunk)
    \/ \E t \in DOMAIN ingest : IngestStreamEnds(t, "end")
    \/ \E t \in DOMAIN ingest : IngestCleanup(t)
    \/ \E t \in DOMAIN ingest : WrapperFinally(t)
    \/ Interrupt
    \/ StopAllSignal

SpecFramer == InitFramer /\ [][NextFramer]_vars

\* A task is started and stopped through the routes, and stopped by an
\* interrupt, while its first ingest thread counts the chunks of a stream
\* that keeps delivering; later threads of the key are followed only up
\* to the end of their stream.
InitStream ==
    /\ PipelineInit
    /\ WorkersStarted
    /\ TasksStreaming({"webcam_0"})
    /\ ComponentsIdle

NextStream ==
    \/ ReadChunk(1, <<"d">>)
    \/ \E k \in RequestKeys : StartCheck(1, k)
    \/ StartProbe(1, "200")
    \/ StartCreate(1)
    \/ \E t \in DOMAIN ingest : WrapperBegin(t)
    \/ \E t \in DOMAIN ingest : IngestBegin(t)
    \/ \E t \in DOMAIN ingest : IngestLoop(t)
    \/ \E t \in DOMAIN ingest : IngestConnect(t, "ok")
    \/ \E t \in DOMAIN ingest : IngestStreamEnds(t, "end")
    \/ \E t \in DOMAIN ingest : IngestCleanup(t)
    \/ \E t \in DOMAIN ingest : WrapperFinally(t)
    \/ \E k \in RequestKeys : StopClose(k)
    \/ StopSignal
    \/ StopJoin(TRUE)
    \/ StopJoin(FALSE)
    \/ StopMark
    \/ Interrupt
    \/ StopAllSignal

SpecStream == InitStream /\ [][NextStream]_vars

\* -------------------------------------------------------------- sampling gate
\* Two tasks stream and hand frames to the stages while the clock runs;
\* nothing is taken from the queues, and an interrupt stops the workers
\* while the ingest threads have not yet seen their stop flag.
InitGate ==
    /\ PipelineInit
    /\ WorkersStarted
    /\ TasksStreaming(Sources)
    /\ ComponentsIdle

NextGate ==
    \/ Tick
    \/ \E s \in Sources, frame \in Frames : SampleModel(s, frame)
    \/ \E s \in Sources : QueueModel(s)
    \/ \E s \in Sources : SampleClassifier(s)
    \/ \E s \in Sources : QueueClassifier(s)
    \/ Interrupt
    \/ StopAllSignal
    \/ StopAllJoin(TRUE)
    \/ WorkerStop
    \/ WorkerJoin(TRUE)
    \/ WorkerJoin(FALSE)
    \/ \E w \in Workers : WorkerObserveStop(w)
    \/ \E w \in Workers : WorkerExit(w)

SpecGate == InitGate /\ [][NextGate]_vars

\* --------------------------------------------------------- SftpUploaderThread
\* Results of one transfer: transferData returns success, returns an
\* error dict (file missing, no project settings, SFTP error), or raises
\* before its try block.
TransferResults == {"success", "error", "exception"}

\* Files offered for upload: one of each folder type.
UploadPaths == {CsvPath(ft, 0) : ft \in FolderTypes}

\* SftpUploadRequest number n for the path.
UploadJob(n, path) ==
    [id |-> n, file_path |-> path, folder_type |-> path[1],
     sftp_server_info |-> sftp_server_info]

\* SftpUploaderThread.queue_upload, called with the path of a CSV file.
queue_upload(path) ==
    /\ transfers.calls < MaxUploads
    /\ LET n == transfers.calls + 1
           outcome == EnqueueOutcome("sftp", upload_queue)
       IN  /\ upload_queue' = QueueAfter(upload_queue, UploadJob(n, path), outcome)
           /\ stats' = StatsAfterEnqueue(stats, "sftp", outcome)
           /\ rejected_full' = RejectedAfter(rejected_full, "sftp", outcome)
           /\ transfers' = [transfers EXCEPT
                               !.calls = n,
                               !.accepted = IF outcome = "ok" THEN Append(@, n) ELSE @]
    /\ UNCHANGED <<now, sampled, sftp_server_info, pend, last_model_processing_time,
                   last_classifier_processing_time, detection_queue,
                   classification_queue, csv_queue, running, active_csv_files,
                   files, created, faults>>
    /\ UNCHANGED <<taskVars, workerVars, shutdownVars, gateVars, streamVars, sceneVars, extraVars>>

\* Variant of NextRequest that takes the newest request of the queue.
NextRequest_Newest(queue) == queue[Len(queue)]

\* queue.Queue.get / get_nowait: the oldest request of the queue.
NextRequest(queue) == Head(queue)

Without(queue, request) ==
    LET Other(r) == r # request IN SelectSeq(queue, Other)

\* _upload_worker, main loop or drain loop: a request is taken from the
\* queue and transferData is entered.
UploadGet ==
    /\ worker_thread["sftp"] \in {"loop", "drain"}
    /\ transfers.current = NoJob
    /\ upload_queue # <<>>
    /\ LET request == NextRequest(upload_queue)
       IN  /\ upload_queue' = Without(upload_queue, request)
           /\ transfers' = [transfers EXCEPT
                               !.current = request,
                               !.log = Append(@, [kind |-> "start", id |-> request.id])]
    /\ UNCHANGED <<now, sampled, sftp_server_info, pend, last_model_processing_time,
                   last_classifier_processing_time, detection_queue,
                   classification_queue, csv_queue, running, stats, rejected_full,
                   active_csv_files, files, created, faults>>
    /\ UNCHANGED <<taskVars, workerVars, shutdownVars, gateVars, streamVars, sceneVars, extraVars>>

\* Variant of AfterTransfer that puts a failed request back on the queue.
AfterTransfer_Retry(queue, request, result) ==
    IF result = "success" THEN queue ELSE Append(queue, request)

\* Neither the result branch nor the except branch of the worker touches
\* the queue: the request is gone whatever the result.
AfterTransfer(queue, request, result) == queue

\* _upload_worker: transferData has returned or raised; the result is
\* counted and the request is finished (task_done).
UploadFinish(result) ==
    /\ transfers.current # NoJob
    /\ upload_queue' = AfterTransfer(upload_queue, transfers.current, result)
    /\ stats' = IF result = "success"
                THEN [stats EXCEPT !["sftp"].total_uploaded = @ + 1]
                ELSE [stats EXCEPT !["sftp"].total_failed = @ + 1]
    /\ transfers' = [transfers EXCEPT
                        !.current = NoJob,
                        !.log = Append(@, [kind |-> result, id |-> transfers.current.id])]
    /\ UNCHANGED <<now, sampled, sftp_server_info, pend, last_model_processing_time,
                   last_classifier_processing_time, detection_queue,
                   classification_queue, csv_queue, running, rejected_full,
                   active_csv_files, files, created, faults>>
    /\ UNCHANGED <<taskVars, workerVars, shutdownVars, gateVars, streamVars, sceneVars, extraVars>>

\* The uploader on its own: clients call queue_upload, the worker
\* transfers, and an interrupt stops the workers in turn.
InitUploads ==
    /\ PipelineInit
    /\ WorkersStarted
    /\ NoTasks
    /\ ComponentsIdle

NextUploads ==
    \/ \E path \in UploadPaths : queue_upload(path)
    \/ UploadGet
    \/ \E result \in TransferResults : UploadFinish(result)
    \/ Interrupt
    \/ StopAllSignal
    \/ WorkerStop
    \/ WorkerJoin(TRUE)
    \/ WorkerJoin(FALSE)
    \/ \E w \in Workers : WorkerObserveStop(w)
    \/ \E w \in Workers : WorkerExit(w)

SpecUploads == InitUploads /\ [][NextUploads]_vars

\* ---------------------------------------------------------------- claims

\* C1: with an SFTP server configured and the uploader running, every CSV
\* file closed by a rollover (replaced by a newer file of its stage that
\* has received its rows) has been offered to the uploader exactly once.
C1_OfferedExactlyOnce ==
    (sftp_server_info # NoServer /\ running["sftp"]) =>
        \A i, j \in DOMAIN created :
            (Replaces(i, j) /\ DataRows(created[i].path) # <<>>
                /\ created[i].path # created[j].path
                /\ DataRows(created[j].path) # <<>>)
            => Offers(created[i].path) = 1

\* C2: for every (stage, source) at most one CSV file is tracked as open.
C2_AtMostOneOpen ==
    \A ft \in FolderTypes, s \in Sources :
        Cardinality({e \in active_csv_files : e.folder_type = ft /\ e.src = s}) <= 1

\* A rollover has happened for one (stage, source): the source created two
\* successive files of the stage, and the later one is the open one.
C2_Witness ==
    \E i, j \in DOMAIN created :
        /\ Replaces(i, j)
        /\ created[i].src = created[j].src
        /\ created[i].path # created[j].path
        /\ created[j] \in active_csv_files

\* C3: all rows of one CSV file come from the same source.
C3_SingleSourcePerFile ==
    \A p \in Paths :
        \A i, j \in DOMAIN files[p] :
            (IsRow(files[p][i]) /\ IsRow(files[p][j])) => files[p][i].src = files[p][j].src

\* C4: on rollover the old file is offered before the new file gets its
\* first row, and the files of a stage are offered in creation order.
C4_OfferBeforeNewRows ==
    /\ \A i, j \in DOMAIN created :
          (Replaces(i, j) /\ created[i].path # created[j].path
              /\ DataRows(created[i].path) # <<>>
              /\ DataRows(created[j].path) # <<>>)
          => Offers(created[i].path) >= 1
    /\ \A k, l \in DOMAIN upload_queue :
          \A i, j \in DOMAIN created :
              (k < l /\ created[i].path = upload_queue[k].file_path
                     /\ created[j].path = upload_queue[l].file_path
                     /\ created[i].folder_type = created[j].folder_type)
              => i <= j

\* C5: a step of the CSV writer on a record whose stage has an open file of
\* age >= csv_interval_seconds leaves the old file as it is and, when the
\* write succeeds, puts the record into a file created at this step; with
\* a smaller age nothing is created and a successful write appends the
\* record to the open file.
C5_Step ==
    (csv_queue # <<>> /\ csv_queue' = Tail(csv_queue)) =>
        LET request == Head(csv_queue)
            ft == request.folder_type
            written == stats'["csv"].total_written = stats["csv"].total_written + 1
            rows == RequestRows(request)
        IN  \A e \in {x \in active_csv_files : x.folder_type = ft} :
                IF now - e.start_time >= csv_interval_seconds
                THEN /\ written =>
                          \E n \in active_csv_files' :
                              /\ n.folder_type = ft
                              /\ n.start_time = now
                              /\ created' = Append(created, n)
                              /\ files'[n.path] = <<Header>> \o rows
                              /\ (n.path # e.path => files'[e.path] = files[e.path])
                     /\ ~written => files' = files
                ELSE /\ active_csv_files' = active_csv_files
                     /\ created' = created
                     /\ \A p \in Paths : p # e.path => files'[p] = files[p]
                     /\ files'[e.path] = IF written THEN files[e.path] \o rows
                                         ELSE files[e.path]

C6_HeaderOnceFirst ==
    \A p \in Paths :
        DataRows(p) # <<>> =>
            /\ files[p][1] = Header
            /\ Cardinality({i \in DOMAIN files[p] : files[p][i] = Header}) = 1

\* C7: within every CSV file the timestamps of the rows are non-decreasing
\* in file order.
C7_TimestampsMonotone ==
    \A p \in Paths :
        \A i, j \in DOMAIN files[p] :
            (i < j /\ IsRow(files[p][i]) /\ IsRow(files[p][j]))
            => files[p][i].timestamp <= files[p][j].timestamp

\* C8: every particle forwarded to the CSV writer and every row of a
\* detector CSV lies in the detect window [min_d_detect, max_d_detect] of
\* the settings carried by its request.
C8_RowsInDetectWindow ==
    /\ \A k \in DOMAIN csv_queue :
          csv_queue[k].folder_type = "model" =>
              \A i \in DOMAIN csv_queue[k].data.particles :
                  InDetectRange(csv_queue[k].data.particles[i], csv_queue[k].settings)
    /\ \A t \in 0..MaxTime :
          \A i \in DOMAIN files[CsvPath("model", t)] :
              IsRow(files[CsvPath("model", t)][i]) =>
                  InDetectRange(files[CsvPath("model", t)][i],
                                files[CsvPath("model", t)][i].settings)

\* A detector row of webcam_0 sits on the upper bound of its detect window:
\* it stems from the frame whose other particle is in the save window only.
C8_Witness ==
    \E t \in 0..MaxTime :
        \E i \in DOMAIN files[CsvPath("model", t)] :
            LET line == files[CsvPath("model", t)][i]
            IN  /\ IsRow(line)
                /\ line.src = "webcam_0"
                /\ line.max_d_mm = line.settings.max_d_detect
                /\ Len(object_process_image(<< <<0, 0, 3, 2>>, <<1, 1, 3, 2>> >>,
                                            line.settings).particles_to_save) = 2

\* C9: an enqueue on a full queue leaves the queue as it is and increments
\* the dropped counter of that queue by one.
C9_Step ==
    \A w \in Workers :
        rejected_full'[w] = rejected_full[w] + 1 =>
            /\ QueueOf(w)' = QueueOf(w)
            /\ Dropped(w)' = Dropped(w) + 1

C9_FullQueueCountsDrop == [][C9_Step]_vars

\* C10: dropped never decreases and
\* queued >= processed + failed + dropped - in_flight for every worker.
C10_Balance ==
    \A w \in Workers : Queued(w) >= Done(w) + Failed(w) + Dropped(w) - InFlight(w)

C10_StatsBalance ==
    [](C10_Balance) /\ [][\A w \in Workers : Dropped(w)' >= Dropped(w)]_vars

\* ------------------------------------------------------ worker stop: derived
\* The stop() call of cleanup_threads returns in this step.
WorkerStopReturns == cleanup.pc = "join" /\ cleanup'.pc # "join"

\* C11 as stated: after stop(timeout) returns, whatever it returns, the
\* worker thread of that queue has ended.
C11_Step ==
    WorkerStopReturns => worker_thread'[NextWorker] = "exited"

C11_StoppedAfterReturn == [][C11_Step]_vars

\* C11 amended: after stop(timeout) returns True the worker thread of that
\* queue has ended, and a worker whose _running flag is cleared has no
\* thread running.
C11_SuccessStep ==
    (WorkerStopReturns /\ cleanup'.joined[Len(cleanup'.joined)] = "true")
    => worker_thread'[NextWorker] = "exited"

C11_NotRunningEnded ==
    \A w \in Workers : ~running[w] => worker_thread[w] = "exited"

C11_StoppedAfterSuccess == [](C11_NotRunningEnded) /\ [][C11_SuccessStep]_vars

\* stop() returned True for a worker that had requests to drain, and
\* False (timeout) for another.
C11_Witness ==
    ~(\E i, j \in DOMAIN cleanup.joined :
        /\ cleanup.joined[i] = "true"
        /\ at_stop[WorkerOrder[i]].queue # <<>>
        /\ ~running[WorkerOrder[i]]
        /\ cleanup.joined[j] = "false")

\* C12: every request that was in a worker's queue when stop() set the
\* stop event has been taken from the queue and counted, as processed or
\* as failed, when the worker thread ends; each request taken from a
\* queue is counted once.
C12_Drained ==
    \A w \in Workers :
        worker_thread[w] = "exited"
        => /\ at_stop[w] # <<>>
           /\ Handled(w) >= at_stop[w].handled + Len(at_stop[w].queue)

C12_Step ==
    \A w \in Workers :
        /\ Len(QueueOf(w)') < Len(QueueOf(w))
           => /\ QueueOf(w)' = Tail(QueueOf(w))
              /\ Handled(w)' = Handled(w) + 1
        /\ Handled(w)' # Handled(w) => QueueOf(w)' = Tail(QueueOf(w))

C12_StopDrainsQueue == [](C12_Drained) /\ [][C12_Step]_vars

\* A worker has ended after draining a request that stop() found queued.
C12_Witness ==
    ~(\E w \in Workers :
        /\ worker_thread[w] = "exited"
        /\ at_stop[w] # <<>>
        /\ at_stop[w].queue # <<>>
        /\ QueueOf(w) = <<>>)

\* ------------------------------------------------- supervisor: derived
\* Ingest threads of the key that have not ended.
LiveThreads(k) == {t \in DOMAIN ingest : ingest[t].key = k /\ Alive(t)}

\* The /stop-thread call returns in this step.
StopReturns == stop_call.pc # "idle" /\ stop_call'.pc = "idle"

\* C13: StartTask is rejected while the record of its key is running, and
\* of the concurrent StartTask calls for a key at most one creates a record
\* and launches an ingest thread: per key the launches exceed the clearings
\* of the running flag by one while the record is running and by none
\* otherwise.
C13_Balance ==
    \A k \in Sources :
        task_log.launched[k] - task_log.cleared[k] = (IF is_running(k) THEN 1 ELSE 0)

C13_Step ==
    \A c \in StartCallers :
        (/\ start_call'[c] # start_call[c]
         /\ start_call[c].pc \in {"idle", "start"}
         /\ is_running(start_call'[c].key))
        => /\ start_call'[c].result \in {"400", "500"}
           /\ start_call'[c].pc = "idle"
           /\ UNCHANGED <<threads, ingest>>

C14_Step ==
    \A c \in StartCallers :
        (/\ start_call[c].pc = "probe"
         /\ start_call'[c] # start_call[c]
         /\ start_call'[c].probe # "200")
        => /\ start_call'[c].result = "503"
           /\ start_call'[c].pc = "idle"
           /\ UNCHANGED <<threads, ingest, active_streams>>

C14_ProbeFailureCreatesNothing == [][C14_Step]_vars

C14_Witness ==
    ~(\E c \in StartCallers :
        /\ start_call[c].result = "503"
        /\ start_call[c].probe \in ProbeOutcomes \ {"200"}
        /\ threads[start_call[c].key] = NoTask)

\* C15: whenever StopTask(key) returns success, no ingest thread of the key
\* is alive and no stream is registered under the key (stated for keys
\* started once, so that the threads found alive are the stopped task's).
C15_Step ==
    (/\ StopReturns
     /\ stop_call'.result = "true"
     /\ task_log.launched[stop_call.key] = 1)
    => /\ LiveThreads(stop_call.key)' = {}
       /\ active_streams'[stop_call.key] = NoResponse

C15_StopLeavesNothing == [][C15_Step]_vars

\* C16: a StopTask call on a key whose record is exactly as the previous
\* successful StopTask on that key left it reports success and leaves the
\* record unchanged.
C16_Step ==
    (/\ stop_call.pc = "signal"
     /\ stop_call' # stop_call
     /\ task_log.after_stop[stop_call.key] # NoTask
     /\ threads[stop_call.key] = task_log.after_stop[stop_call.key])
    => /\ stop_call'.pc = "idle"
       /\ stop_call'.result = "true"
       /\ threads'[stop_call.key] = threads[stop_call.key]

C16_SecondStopNoOp == [][C16_Step]_vars

\* C17: a StopTask whose wait times out returns and leaves the status
\* 'error: shutdown-timeout', and no record has the status 'stopped' while
\* the thread it names is alive.
C17_Step ==
    (StopReturns /\ stop_call'.result = "false")
    => threads'[stop_call.key].status = "error: shutdown-timeout"

C17_NoLiveStopped ==
    \A k \in Sources :
        (threads[k] # NoTask /\ threads[k].status = "stopped")
        => ~Alive(threads[k].thread)

C17_TimeoutMarked == [](C17_NoLiveStopped) /\ [][C17_Step]_vars

\* C18: with no stop requested, the error status set by the ingest thread
\* on a connection error or timeout is still the status of its task after
\* the thread has ended.
C18_ErrorStatusTerminal ==
    \A t \in DOMAIN ingest :
        (/\ ingest[t].pc = "dead"
         /\ ingest[t].error_status \in {"error: server unreachable", "error: timeout"}
         /\ task_log.stop_calls = 0
         /\ threads[ingest[t].key] # NoTask
         /\ threads[ingest[t].key].thread = t)
        => threads[ingest[t].key].status = ingest[t].error_status

\* C19: the handler of an exception raised because StopTask closed the
\* response under the reader sets no error status (stated for keys started
\* once, where only StopTask closes the response of a live reader).
C19_Step ==
    \A t \in DOMAIN ingest :
        (/\ ingest[t].pc = "except"
         /\ ingest'[t].pc # "except"
         /\ ingest[t].forced
         /\ task_log.launched[ingest[t].key] = 1)
        => /\ ingest'[t].error_status = "none"
           /\ threads'[ingest[t].key].status \notin ErrorStatuses

C19_StopErrorsNotReported == [][C19_Step]_vars

\* C20: on interrupt the components are stopped in the order supervisor,
\* detector, classifier, CSV writer, SFTP uploader, health monitor,
\* streams, sessions, logger; a step begins only when the previous one
\* has returned.
C20_ShutdownOrder ==
    LET order == <<"supervisor", "detector", "classifier", "csv", "sftp",
                   "health", "streams", "sessions", "logger">>
        rank(step) == CHOOSE n \in DOMAIN order : order[n] = step
    IN \A i, j \in DOMAIN cleanup.begun :
           i < j => rank(cleanup.begun[i]) < rank(cleanup.begun[j])

\* C21: when cleanup_threads has gone through all its steps and the CSV
\* writer thread has ended, no CSV file is tracked as active and every
\* file that received data rows has been offered to the uploader.
C21_ShutdownClosesArtifacts ==
    (cleanup.pc = "done" /\ worker_thread["csv"] = "exited")
    => /\ active_csv_files = {}
       /\ \A p \in Paths : DataRows(p) # <<>> => Offers(p) >= 1

\* ------------------------------------------------------- uploader: derived
\* Positions in the transfer log where the job's transfer started / ended.
StartsOf(id) ==
    {m \in DOMAIN transfers.log : transfers.log[m].kind = "start" /\ transfers.log[m].id = id}
EndsOf(id) ==
    {m \in DOMAIN transfers.log : transfers.log[m].kind # "start" /\ transfers.log[m].id = id}
Completed == {m \in DOMAIN transfers.log : transfers.log[m].kind # "start"}

\* C22: upload jobs are transferred one at a time in the order queue_upload
\* accepted them, also when they are drained after stop: if job a was
\* accepted before job b, the transfer of a has ended before the
\* transfer of b starts.
C22_FifoOneAtATime ==
    \A i, j \in DOMAIN transfers.accepted :
        i < j => \A m \in StartsOf(transfers.accepted[j]) :
                    \E l \in EndsOf(transfers.accepted[i]) : l < m

\* stop() found two jobs queued; the worker drained both, in turn, and ended.
C22_Witness ==
    ~(/\ at_stop["sftp"] # <<>>
      /\ Len(at_stop["sftp"].queue) >= 2
      /\ worker_thread["sftp"] = "exited"
      /\ \A i \in DOMAIN transfers.accepted : EndsOf(transfers.accepted[i]) # {})

\* C23: no upload job is attempted more than once: a transfer that fails
\* (error result or exception) adds one to total_failed and leaves the
\* queue as it was, a job whose transfer has ended is not in the queue
\* and has one start in the log, and total_uploaded + total_failed is
\* the number of transfers that have ended.
C23_Counted ==
    /\ \A id \in 1..transfers.calls : Cardinality(StartsOf(id)) <= 1
    /\ \A id \in 1..transfers.calls :
          EndsOf(id) # {} => \A k \in DOMAIN upload_queue : upload_queue[k].id # id
    /\ stats["sftp"].total_uploaded + stats["sftp"].total_failed = Cardinality(Completed)

C23_Step ==
    (/\ transfers.current # NoJob
     /\ transfers'.current = NoJob
     /\ transfers'.log[Len(transfers'.log)].kind # "success")
    => /\ stats'["sftp"].total_failed = stats["sftp"].total_failed + 1
       /\ stats'["sftp"].total_uploaded = stats["sftp"].total_uploaded
       /\ upload_queue' = upload_queue

Hands(s, ft) == pend[s] = <<>> /\ pend'[s] # <<>> /\ pend'[s][1].stage = ft

\* C24: a frame a task hands to a stage comes at least
\* image_processing_interval after the frame the same task handed to that
\* stage before, whether that one was accepted by the stage's queue or
\* not; and a step in which one task hands a frame or records its gate
\* time leaves the gate times of every other task as they were.
C24_Step ==
    \A s \in Sources, ft \in FolderTypes :
        Hands(s, ft) =>
            /\ handed[s][ft] # <<>>
               => handed'[s][ft][1] - handed[s][ft][1] >= image_processing_interval
            /\ \A o \in Sources \ {s} :
                  /\ handed'[o] = handed[o]
                  /\ last_model_processing_time'[o] = last_model_processing_time[o]
                  /\ last_classifier_processing_time'[o] = last_classifier_processing_time[o]

C24_GateSpacing == [][C24_Step]_vars

\* A task has handed a second frame to the detector after its first one
\* was turned away by the detector (no frame was ever accepted).
C24_Witness ==
    ~(\E s \in Sources :
        /\ handed[s]["model"] # <<>>
        /\ handed[s]["model"][1] > last_model_processing_time[s]
        /\ last_model_processing_time[s] >= 0
        /\ stats["detector"].total_queued = 0
        /\ pend[s] # <<>>)

\* -------------------------------------------------------- chunk loop: derived
\* The thread has appended a chunk to its buffer in this step.
Appends(t) ==
    /\ stream'[t].chunk_count = stream[t].chunk_count + 1
    /\ ingest'[t].pc = "stream"

IsSuffix(a, b) == Len(a) <= Len(b) /\ a = LastBytes(b, Len(a))

\* C25: after a chunk has been processed the buffer holds at most
\* STREAM_MAX_BUFFER_SIZE bytes; when the buffer with the chunk appended
\* is longer than that, what is kept comes from its newest
\* STREAM_MAX_BUFFER_SIZE / 2 bytes only.
C25_Capped ==
    \A t \in ThreadIds : Len(stream[t].buffer) <= STREAM_MAX_BUFFER_SIZE

C25_Step ==
    \A t \in DOMAIN ingest :
        (Appends(t) /\ Len(stream[t].buffer \o stream'[t].chunk) > STREAM_MAX_BUFFER_SIZE)
        => IsSuffix(stream'[t].buffer,
                    LastBytes(stream[t].buffer \o stream'[t].chunk,
                              STREAM_MAX_BUFFER_SIZE \div 2))

C25_BufferCapped == [](C25_Capped) /\ [][C25_Step]_vars

\* A buffer without a boundary went over the cap with a chunk and was cut
\* to the newest half: three or more chunks received, half a cap held.
C25_Witness ==
    ~(\E t \in DOMAIN ingest :
        /\ stream[t].chunk_count >= 3
        /\ Len(stream[t].chunk) >= 1
        /\ Len(stream[t].buffer) = STREAM_MAX_BUFFER_SIZE \div 2
        /\ \A i \in DOMAIN stream[t].buffer : stream[t].buffer[i] = "d")

\* C30: at every instant at most one ingest thread is alive per task key,
\* whatever the interleaving of the start and stop requests.
C30_OneThreadPerKey ==
    \A k \in Sources : Cardinality(LiveThreads(k)) <= 1

\* C26: an ingest thread whose stop flag has been cleared leaves the chunk
\* loop after at most STREAM_CHUNK_CHECK_INTERVAL further chunks.
C26_StopSeenInTime ==
    \A t \in DOMAIN ingest : stream[t].since_stop <= STREAM_CHUNK_CHECK_INTERVAL

\* ------------------------------------------------- detector under a burst
\* queue_detection called for the next frame of the burst, whatever the
\* sampling gate says: the _running check, put_nowait, the counters.
BurstOffer(frame) ==
    /\ burst.offered < BurstFrames
    /\ LET request == [stage |-> "model", src |-> "webcam_0", frame |-> frame,
                       settings |-> SettingsOf("webcam_0"), timestamp |-> now,
                       sftp_server_info |-> sftp_server_info]
           outcome == EnqueueOutcome("detector", detection_queue)
       IN  /\ detection_queue' = QueueAfter(detection_queue, request, outcome)
           /\ stats' = StatsAfterEnqueue(stats, "detector", outcome)
           /\ rejected_full' = RejectedAfter(rejected_full, "detector", outcome)
    /\ burst' = [burst EXCEPT !.offered = @ + 1]
    /\ UNCHANGED <<taskVars, workerVars, shutdownVars, uploadVars, gateVars,
                   streamVars, health, verdict, extraVars>>
    /\ UNCHANGED <<now, sampled, sftp_server_info, pend, last_model_processing_time,
                   last_classifier_processing_time, classification_queue, csv_queue,
                   upload_queue, running, active_csv_files, files, created, faults>>

\* _detector_worker: request = self._detection_queue.get(timeout=1.0)
\* returns; the slot of the request in the queue is free from here on,
\* while the inference on it has not finished.
DetectorGet ==
    /\ worker_thread["detector"] # "exited"
    /\ burst.inference = <<>>
    /\ detection_queue # <<>>
    /\ detection_queue' = Tail(detection_queue)
    /\ burst' = [burst EXCEPT !.inference = <<Head(detection_queue)>>,
                              !.taken_after = burst.offered]
    /\ UNCHANGED <<taskVars, workerVars, shutdownVars, uploadVars, gateVars,
                   streamVars, health, verdict, extraVars>>
    /\ UNCHANGED <<now, sampled, sftp_server_info, pend, last_model_processing_time,
                   last_classifier_processing_time, classification_queue, csv_queue,
                   upload_queue, running, stats, rejected_full, active_csv_files,
                   files, created, faults>>

\* _detector_worker: object_process_image returns or raises, and the rest
\* of the iteration runs.
DetectorInfer(ok) ==
    /\ burst.inference # <<>>
    /\ DetectorProcess(burst.inference[1], ok)
    /\ burst' = [burst EXCEPT !.inference = <<>>]
    /\ UNCHANGED <<taskVars, workerVars, shutdownVars, uploadVars, gateVars,
                   streamVars, health, verdict, extraVars>>
    /\ UNCHANGED <<now, sampled, sftp_server_info, pend, last_model_processing_time,
                   last_classifier_processing_time, detection_queue,
                   classification_queue, upload_queue, running, active_csv_files,
                   files, created>>

InitBurst ==
    /\ PipelineInit
    /\ WorkersStarted
    /\ TasksStreaming(Sources)
    /\ ComponentsIdle

NextBurst ==
    \/ Tick
    \/ \E frame \in Frames : BurstOffer(frame)
    \/ DetectorGet
    \/ DetectorInfer(TRUE)
    \/ DetectorInfer(FALSE)

SpecBurst == InitBurst /\ [][NextBurst]_vars

\* The worker took the first frame of the burst before the second was
\* offered and its inference has not finished.
FirstFrameInProgress ==
    /\ burst.inference # <<>>
    /\ burst.taken_after = 1
    /\ stats["detector"].total_processed + stats["detector"].total_failed = 0

\* C27: with the first frame in inference, a burst of BurstFrames frames on
\* a detector queue of capacity QueueMax ends with QueueMax frames accepted
\* (one in inference, QueueMax - 1 queued) and BurstFrames - QueueMax dropped.
C27_BurstCounts ==
    (FirstFrameInProgress /\ burst.offered = BurstFrames)
        => /\ stats["detector"].total_queued = QueueMax
           /\ Len(detection_queue) = QueueMax - 1
           /\ stats["detector"].total_dropped = BurstFrames - QueueMax

\* --------------------------------------------------------- health monitor
\* ServerHealthMonitor._check_health on what the probe of the health URL
\* ended in (ProbeOutcomes): a response with its status code,
\* requests.exceptions.ConnectionError, requests.exceptions.Timeout, any
\* other exception.
CheckHealth_AnyResponse(outcome) ==
    IF outcome \in {"200", "non200"} THEN "available" ELSE "unavailable"

CheckHealth(outcome) ==
    IF outcome = "200" THEN "available" ELSE "unavailable"

\* One iteration of ServerHealthMonitor._monitor_loop with a listener
\* given: probe, and under the lock store the status and call
\* _on_status_change(name, old_status, new_status) if it differs.
MonitorLoop(outcome) ==
    /\ health.running
    /\ Len(health.probes) < MaxChecks
    /\ LET new_status == CheckHealth(outcome)
           old_status == health.status
       IN  health' = [health EXCEPT
                         !.probes = Append(@, outcome),
                         !.status = new_status,
                         !.calls = IF new_status # old_status
                                   THEN Append(@, <<old_status, new_status>>)
                                   ELSE @]
    /\ UNCHANGED <<pipeVars, taskVars, workerVars, shutdownVars, uploadVars, gateVars,
                   streamVars, burst, verdict, extraVars>>

\* ServerHealthMonitor.stop: self._running = False ends the loop.
MonitorStop ==
    /\ health.running
    /\ health' = [health EXCEPT !.running = FALSE]
    /\ UNCHANGED <<pipeVars, taskVars, workerVars, shutdownVars, uploadVars, gateVars,
                   streamVars, burst, verdict, extraVars>>

InitHealth ==
    /\ PipelineInit
    /\ WorkersStarted
    /\ TasksStreaming(Sources)
    /\ ComponentsIdle

NextHealth ==
    \/ \E outcome \in ProbeOutcomes : MonitorLoop(outcome)
    \/ MonitorStop

SpecHealth == InitHealth /\ [][NextHealth]_vars

\* After a completed probe the status is 'available' exactly when the
\* probe returned HTTP 200 and 'unavailable' exactly when it did not.
C28_StatusOfProbe ==
    health.probes # <<>> =>
        LET last == health.probes[Len(health.probes)]
        IN  /\ health.status = "available" <=> last = "200"
            /\ health.status = "unavailable" <=> last # "200"

\* A probe calls the listener once with the old and the new status when
\* the status changes and not at all when it does not; nothing else
\* calls the listener.
C28_Step ==
    health'.calls = IF health'.status # health.status
                    THEN Append(health.calls, <<health.status, health'.status>>)
                    ELSE health.calls

\* C28: the status after a completed probe is 'available' iff the probe
\* returned HTTP 200 and 'unavailable' otherwise, and the status-change
\* listener is invoked exactly once per change of the status, with the old
\* and the new status, and never when a probe leaves the status unchanged.
C28_StatusAndListener == [](C28_StatusOfProbe) /\ [][C28_Step]_vars

\* Three probes: 200, a failure, another failure. The listener was called
\* for unknown -> available and available -> unavailable and not again.
C28_Witness ==
    ~(/\ Len(health.probes) = 3
      /\ health.probes[1] = "200"
      /\ health.probes[2] = "timeout"
      /\ health.probes[3] = "non200"
      /\ health.calls = << <<"unknown", "available">>, <<"available", "unavailable">> >>)

\* ------------------------------------------------- classifier_process_image
\* Entries of class_names: status names of the database, or str(i) where
\* the database has no status for index i.
ClassNames == {"belt_ok", "belt_torn", "2"}

\* class_names lists get_classifier_from_database can return.
ClassNameTables == UNION {[1..n -> ClassNames] : n \in 1..MaxClasses}

\* predicted_class.item(): the index of the largest model output.
PredictedIndexes == 0..MaxClasses

\* list[i] of Python, indexes from 0.
Item(list, i) == list[i + 1]

\* if predicted_index >= len(class_names): predicted_index = len(class_names) - 1
ClampIndex_First(predicted_index, n) ==
    IF predicted_index >= n THEN 0 ELSE predicted_index

ClampIndex(predicted_index, n) ==
    IF predicted_index >= n THEN n - 1 ELSE predicted_index

\* classifier_process_image from the prediction on: the range check with
\* its three logger.error lines, belt_status = class_names[predicted_index].
classifier_process_image(class_names, predicted_index) ==
    /\ verdict' = [class_names |-> class_names,
                   predicted_index |-> <<predicted_index>>,
                   belt_status |-> <<Item(class_names,
                                          ClampIndex(predicted_index, Len(class_names)))>>,
                   errors |-> IF predicted_index >= Len(class_names) THEN 3 ELSE 0]
    /\ UNCHANGED <<pipeVars, taskVars, workerVars, shutdownVars, uploadVars, gateVars,
                   streamVars, burst, health, extraVars>>

InitClassify ==
    /\ PipelineInit
    /\ WorkersStarted
    /\ TasksStreaming(Sources)
    /\ ComponentsIdle

NextClassify ==
    \E class_names \in ClassNameTables, predicted_index \in PredictedIndexes :
        classifier_process_image(class_names, predicted_index)

SpecClassify == InitClassify /\ [][NextClassify]_vars

\* C29: for a predicted index i and a class-name table of length n the
\* result is class_names[i] when i < n and class_names[n-1] when i >= n,
\* and in the clamped case an error log entry has been emitted.
C29_ClampedName ==
    verdict.predicted_index # <<>> =>
        LET i == verdict.predicted_index[1]
            n == Len(verdict.class_names)
        IN  /\ i < n => verdict.belt_status = <<Item(verdict.class_names, i)>>
            /\ i >= n => /\ verdict.belt_status = <<Item(verdict.class_names, n - 1)>>
                         /\ verdict.errors >= 1

\* The index equals the length of a table of two different names: the
\* result is the last name and the error lines were logged.
C29_Witness ==
    ~(/\ verdict.class_names = <<"belt_ok", "belt_torn">>
      /\ verdict.predicted_index = <<2>>
      /\ verdict.belt_status = <<"belt_torn">>
      /\ verdict.errors >= 1)

\* Position of an ingest thread along process_video_stream_background.
PcRank(pc) ==
    CASE pc = "wrapper" -> 0
      [] pc = "begin" -> 1
      [] pc = "loop" -> 2
      [] pc = "connect" -> 3
      [] pc = "stream" -> 4
      [] pc = "except" -> 5
      [] pc = "cleanup" -> 6
      [] pc = "finally" -> 7
      [] pc = "dead" -> 8

\* A step of an ingest thread moves it forward only; once the stream has
\* been opened or has failed to open, the thread goes through its handler
\* to the cleanup and the exit, and a cleared flag seen at the top of the
\* loop sends it to the cleanup.
C31_Step ==
    \A t \in DOMAIN ingest :
        ingest'[t].pc # ingest[t].pc =>
            /\ PcRank(ingest'[t].pc) > PcRank(ingest[t].pc)
            /\ ingest[t].pc \in {"connect", "stream"}
                   => ingest'[t].pc \in {"stream", "except", "cleanup"}
            /\ ingest[t].pc = "except" => ingest'[t].pc = "cleanup"
            /\ (ingest[t].pc = "loop" /\ ~is_running(ingest[t].key))
                   => ingest'[t].pc = "cleanup"

\* C31: the ingest worker never retries: it opens the upstream stream at
\* most once, and after the stream ended, after any error or after a stop
\* signal it runs its cleanup and exits without reconnecting.
C31_NoRetry == [][C31_Step]_vars

\* An ingest thread whose stream failed while the task was running has set
\* an error status and is dead.
C31_Witness ==
    ~(\E t \in DOMAIN ingest :
        /\ ingest[t].pc = "dead"
        /\ ingest[t].error_status = "error: timeout")

\* ------------------------------------------------------------- frame_count
\* process_video_stream_background up to the loop, for the task of
\* webcam_0: model_id and classifier_id say which stages the request
\* configured; model = None, model_loaded = False, frame_count = 0 and the
\* gate trackers are so far back that the first frame passes.
BeginCount(model_id, classifier_id) ==
    /\ ~counting.started
    /\ counting' = [NoCounting EXCEPT
                       !.started = TRUE,
                       !.model_id = model_id,
                       !.classifier_id = classifier_id,
                       !.last_model_processing_time = 0 - image_processing_interval,
                       !.last_classifier_processing_time = 0 - image_processing_interval]
    /\ UNCHANGED <<pipeVars, taskVars, workerVars, shutdownVars, uploadVars, gateVars,
                   streamVars, sceneVars, inserting, monitor>>

\* The body of the chunk loop for one decoded frame: lazy load of the
\* model (loads says whether _load_model_and_settings succeeds), the
\* detector gate at the first time.time(), the classifier gate at the
\* second, dt later, and the frame_count written to the metadata.
ProcessFrame(frame, loads, dt) ==
    /\ counting.started
    /\ counting.frames < MaxFrames
    /\ now + dt <= MaxTime
    /\ LET load == counting.model_id /\ ~counting.model_loaded
           model == IF load THEN loads ELSE counting.model
           model_loaded == IF load THEN loads ELSE counting.model_loaded
           to_model == model /\ now - counting.last_model_processing_time
                                    >= image_processing_interval
           to_classifier == counting.classifier_id
                            /\ (now + dt) - counting.last_classifier_processing_time
                                    >= image_processing_interval
           counted == to_model \/ (to_classifier /\ ~counting.model_id)
           model_request == [stage |-> "model", src |-> "webcam_0", frame |-> frame,
                             settings |-> SettingsOf("webcam_0"), timestamp |-> now,
                             sftp_server_info |-> sftp_server_info]
           classifier_request == [stage |-> "classifier", src |-> "webcam_0",
                                  timestamp |-> now + dt,
                                  sftp_server_info |-> sftp_server_info]
           model_outcome == IF to_model
                            THEN EnqueueOutcome("detector", detection_queue)
                            ELSE "none"
           classifier_outcome == IF to_classifier
                                 THEN EnqueueOutcome("classifier", classification_queue)
                                 ELSE "none"
       IN  /\ counting' = [counting EXCEPT
                  !.model = model,
                  !.model_loaded = model_loaded,
                  !.frames = @ + 1,
                  !.frame_count = IF counted THEN @ + 1 ELSE @,
                  !.in_a_stage = IF to_model \/ to_classifier THEN @ + 1 ELSE @,
                  !.last_model_processing_time = IF to_model THEN now ELSE @,
                  !.last_classifier_processing_time =
                      IF to_classifier THEN now + dt ELSE @]
           /\ detection_queue' = QueueAfter(detection_queue, model_request, model_outcome)
           /\ classification_queue' =
                  QueueAfter(classification_queue, classifier_request, classifier_outcome)
           /\ stats' = StatsAfterEnqueue(StatsAfterEnqueue(stats, "detector", model_outcome),
                                         "classifier", classifier_outcome)
           /\ rejected_full' = RejectedAfter(RejectedAfter(rejected_full, "detector",
                                                           model_outcome),
                                             "classifier", classifier_outcome)
    /\ now' = now + dt
    /\ UNCHANGED <<taskVars, workerVars, shutdownVars, uploadVars, gateVars,
                   streamVars, sceneVars, inserting, monitor>>
    /\ UNCHANGED <<sampled, sftp_server_info, pend, last_model_processing_time,
                   last_classifier_processing_time, csv_queue, upload_queue, running,
                   active_csv_files, files, created, faults>>

InitCount ==
    /\ PipelineInit
    /\ WorkersStarted
    /\ TasksStreaming(Sources)
    /\ ComponentsIdle

NextCount ==
    \/ \E model_id \in BOOLEAN, classifier_id \in BOOLEAN : BeginCount(model_id, classifier_id)
    \/ \E frame \in Frames, loads \in BOOLEAN, dt \in {0, 1} : ProcessFrame(frame, loads, dt)
    \/ Tick

SpecCount == InitCount /\ [][NextCount]_vars

\* C32: a task's frame_count equals the number of frames sampled into at
\* least one stage, each counted once, also with both stages configured
\* and with a detector id whose model failed to load.
C32_FrameCount ==
    counting.started => counting.frame_count = counting.in_a_stage

\* The CSV writer takes a request of a stage whose tracked file is within
\* its interval. If the write fails, the tracking and the files stay as
\* they are; if it succeeds, the rows of the request are appended to the
\* tracked file and to no other.
C33_Step ==
    (csv_queue # <<>> /\ csv_queue' = Tail(csv_queue)) =>
        LET request == Head(csv_queue)
            open == {e \in active_csv_files :
                        e.folder_type = request.folder_type /\ ~IntervalElapsed(e)}
        IN  open # {} =>
              /\ active_csv_files' = active_csv_files
              /\ stats'["csv"].total_failed > stats["csv"].total_failed
                     => files' = files
              /\ stats'["csv"].total_written > stats["csv"].total_written
                     => \A e \in open :
                           files' = [files EXCEPT ![e.path] = @ \o RequestRows(request)]

\* C33: when writing a record to a CSV artifact fails, the artifact
\* tracked as open for the stage stays the same, and the next record that
\* arrives within the interval is appended to that artifact.
C33_FailedWriteKeepsArtifact == [][C33_Step]_vars

\* Two records of the detector stage, one written and one failed, and the
\* one file created for the stage is still tracked and holds the rows.
C33_Witness ==
    ~(/\ stats["csv"].total_written = 1
      /\ stats["csv"].total_failed = 1
      /\ stats["classifier"].total_queued = 0
      /\ Len(created) = 1
      /\ \E e \in active_csv_files :
            /\ e.folder_type = "model"
            /\ e.path = created[1].path
            /\ DataRows(e.path) # <<>>)

\* C34: for each queue worker is_running() is true only while its worker
\* thread is alive, after any start() and stop() calls and after a stop()
\* that timed out: an enqueue is accepted only while a consumer exists.
C34_RunningHasConsumer ==
    \A w \in Workers : running[w] => worker_thread[w] # "exited"

\* C35: every item whose enqueue returned True is processed by the worker,
\* also when the enqueue races with stop(): no accepted item is left in a
\* queue whose worker thread has exited.
C35_NothingLeftBehind ==
    \A w \in Workers : worker_thread[w] = "exited" => QueueOf(w) = <<>>

\* ------------------------------------------- queue_detection step by step
\* queue_detection of the ingest thread of s up to the put: the _running
\* check, then put_nowait, which inserts the request or raises queue.Full.
\* The counter of the outcome is updated in a later step, under the lock.
PutDetection(s, frame) ==
    /\ inserting[s] = "none"
    /\ sampled < MaxFrames
    /\ LET request == [stage |-> "model", src |-> s, frame |-> frame,
                       settings |-> SettingsOf(s), timestamp |-> now,
                       sftp_server_info |-> sftp_server_info]
           outcome == EnqueueOutcome("detector", detection_queue)
       IN  /\ detection_queue' = QueueAfter(detection_queue, request, outcome)
           /\ inserting' = [inserting EXCEPT ![s] =
                               IF outcome = "not_running" THEN "none" ELSE outcome]
    /\ sampled' = sampled + 1
    /\ UNCHANGED <<taskVars, workerVars, shutdownVars, uploadVars, gateVars,
                   streamVars, sceneVars, counting, monitor>>
    /\ UNCHANGED <<now, sftp_server_info, pend, last_model_processing_time,
                   last_classifier_processing_time, classification_queue, csv_queue,
                   upload_queue, running, stats, rejected_full, active_csv_files,
                   files, created, faults>>

\* queue_detection after the put: with self._lock: total_queued += 1, or
\* in the except queue.Full clause total_dropped += 1.
CountDetection(s) ==
    /\ inserting[s] # "none"
    /\ stats' = StatsAfterEnqueue(stats, "detector", inserting[s])
    /\ rejected_full' = RejectedAfter(rejected_full, "detector", inserting[s])
    /\ inserting' = [inserting EXCEPT ![s] = "none"]
    /\ UNCHANGED <<taskVars, workerVars, shutdownVars, uploadVars, gateVars,
                   streamVars, sceneVars, counting, monitor>>
    /\ UNCHANGED <<now, sampled, sftp_server_info, pend, last_model_processing_time,
                   last_classifier_processing_time, detection_queue,
                   classification_queue, csv_queue, upload_queue, running,
                   active_csv_files, files, created, faults>>

InitRace ==
    /\ PipelineInit
    /\ WorkersStarted
    /\ TasksStreaming(Sources)
    /\ ComponentsIdle

NextRace ==
    \/ Tick
    \/ \E s \in Sources, frame \in Frames : PutDetection(s, frame)
    \/ \E s \in Sources : CountDetection(s)
    \/ DetectorWorker(TRUE)
    \/ DetectorWorker(FALSE)

SpecRace == InitRace /\ [][NextRace]_vars

\* C36: in every reachable state of a queue worker's statistics,
\* total_processed + total_failed <= total_queued, whatever the
\* interleaving of the producers (insert, then count) and the worker.
C36_ProcessedWithinQueued ==
    \A w \in Workers : Done(w) + Failed(w) <= Queued(w)

\* The record under the key of ingest thread t was made by the StartTask
\* call that launched t.
OwnRecord(t) ==
    /\ threads[ingest[t].key] # NoTask
    /\ threads[ingest[t].key].thread = t

\* An ingest thread that ends leaves a record that is not its own as it
\* is, and an ingest thread goes on to connect only on the running flag of
\* its own record.
C37_Step ==
    \A t \in DOMAIN ingest :
        /\ (ingest[t].pc = "finally" /\ ingest'[t].pc = "dead" /\ ~OwnRecord(t))
               => threads'[ingest[t].key] = threads[ingest[t].key]
        /\ (ingest[t].pc = "loop" /\ ingest'[t].pc = "connect")
               => OwnRecord(t)

\* C37: the exit of an ingest worker changes only the task record created
\* by the StartTask call that launched it: started again while the old
\* worker is alive, a key's new record is not set to running = false and
\* 'stopped' by the old worker, nor is its flag read by the old worker as
\* its own.
C37_ExitTouchesOwnRecord == [][C37_Step]_vars

\* C38: each detector CSV row pairs a particle with its own bounding box:
\* the row's xyxy is the box [x1,y1,x2,y2] its width_px = x2 - x1 and
\* height_px = y2 - y1 were computed from, also for frames where the
\* to_detect filter removed some of the detections.
C38_RowHasOwnBox ==
    \A p \in Paths : \A i \in DOMAIN files[p] :
        LET row == files[p][i]
        IN  (IsRow(row) /\ "xyxy" \in DOMAIN row) =>
                /\ Len(row.xyxy) = 4
                /\ row.width_px = row.xyxy[3] - row.xyxy[1]
                /\ row.height_px = row.xyxy[4] - row.xyxy[2]

\* ------------------------------------------- health monitor, thread level
\* What a status-change listener does before it returns.
ListenerReads == {"nothing", "get_status", "get_all_statuses"}

MonitorAlive == {t \in DOMAIN monitor.threads : monitor.threads[t] # "dead"}

\* HealthMonitoringService.start_all -> ServerHealthMonitor.start, under
\* the lock of the service: nothing if _running, else _running = True and
\* a new thread on _monitor_loop.
MonitorStartAll ==
    /\ monitor.service_lock = "free"
    /\ ~monitor.running
    /\ Len(monitor.threads) < MaxStarts
    /\ monitor' = [monitor EXCEPT !.running = TRUE, !.threads = Append(@, "check")]
    /\ UNCHANGED <<pipeVars, taskVars, workerVars, shutdownVars, uploadVars, gateVars,
                   streamVars, sceneVars, counting, inserting>>

\* _monitor_loop: while self._running.
MonitorCheck(t) ==
    /\ monitor.threads[t] = "check"
    /\ monitor' = [monitor EXCEPT !.threads[t] = IF monitor.running THEN "probe" ELSE "dead"]
    /\ UNCHANGED <<pipeVars, taskVars, workerVars, shutdownVars, uploadVars, gateVars,
                   streamVars, sceneVars, counting, inserting>>

\* _monitor_loop: the probe, then with self._lock: the status is stored
\* and, if it changed, the listener is called with the lock held.
MonitorProbe(t, outcome) ==
    /\ monitor.threads[t] = "probe"
    /\ monitor.lock = 0
    /\ LET new_status == CheckHealth(outcome)
       IN  monitor' = IF new_status # monitor.status
                      THEN [monitor EXCEPT !.status = new_status, !.lock = t,
                                           !.threads[t] = "listener"]
                      ELSE [monitor EXCEPT !.threads[t] = "sleep"]
    /\ UNCHANGED <<pipeVars, taskVars, workerVars, shutdownVars, uploadVars, gateVars,
                   streamVars, sceneVars, counting, inserting>>

\* The listener, running in the monitor thread: it returns (the with
\* block ends and the lock is released), or it calls get_status() of the
\* monitor, or get_all_statuses() of the service, which takes the lock of
\* the service first.
MonitorListener(t, reads) ==
    /\ monitor.threads[t] = "listener"
    /\ reads = "get_all_statuses" => monitor.service_lock = "free"
    /\ monitor' =
          IF reads = "nothing"
          THEN [monitor EXCEPT !.lock = 0, !.threads[t] = "sleep"]
          ELSE IF reads = "get_status"
          THEN [monitor EXCEPT !.threads[t] = "get_status"]
          ELSE [monitor EXCEPT !.service_lock = "listener", !.threads[t] = "get_status"]
    /\ UNCHANGED <<pipeVars, taskVars, workerVars, shutdownVars, uploadVars, gateVars,
                   streamVars, sceneVars, counting, inserting>>

\* HealthMonitoringService.get_all_statuses called by a request handler
\* (health_controller): the lock of the service is taken, then get_status
\* of the monitor is called.
MonitorGetAllStatuses ==
    /\ monitor.request = "idle"
    /\ monitor.service_lock = "free"
    /\ monitor' = [monitor EXCEPT !.service_lock = "request", !.request = "get_status"]
    /\ UNCHANGED <<pipeVars, taskVars, workerVars, shutdownVars, uploadVars, gateVars,
                   streamVars, sceneVars, counting, inserting>>

\* ServerHealthMonitor.get_status: with self._lock is entered when the
\* lock is free; the read returns and the caller releases what it took.
\* The caller is a request handler (0) or the listener in thread t.
MonitorGetStatus(t) ==
    /\ monitor.lock = 0
    /\ IF t = 0
       THEN /\ monitor.request = "get_status"
            /\ monitor' = [monitor EXCEPT !.service_lock = "free", !.request = "idle"]
       ELSE /\ monitor.threads[t] = "get_status"
            /\ monitor' = [monitor EXCEPT
                              !.threads[t] = "sleep",
                              !.service_lock = IF @ = "listener" THEN "free" ELSE @]
    /\ UNCHANGED <<pipeVars, taskVars, workerVars, shutdownVars, uploadVars, gateVars,
                   streamVars, sceneVars, counting, inserting>>

\* time.sleep(check_interval) ends.
MonitorSleep(t) ==
    /\ monitor.threads[t] = "sleep"
    /\ monitor' = [monitor EXCEPT !.threads[t] = "check"]
    /\ UNCHANGED <<pipeVars, taskVars, workerVars, shutdownVars, uploadVars, gateVars,
                   streamVars, sceneVars, counting, inserting>>

\* HealthMonitoringService.stop_all takes the lock of the service, then
\* ServerHealthMonitor.stop: return if not _running, else _running = False
\* and join(timeout=5) on the thread started last.
MonitorStopAll ==
    /\ monitor.stop_all \in {"idle", "returned"}
    /\ monitor.service_lock = "free"
    /\ monitor' = IF monitor.running
                  THEN [monitor EXCEPT !.running = FALSE, !.service_lock = "stop_all",
                                       !.stop_all = "join"]
                  ELSE [monitor EXCEPT !.stop_all = "returned"]
    /\ UNCHANGED <<pipeVars, taskVars, workerVars, shutdownVars, uploadVars, gateVars,
                   streamVars, sceneVars, counting, inserting>>

\* The join returns: the thread has ended, or the five seconds are over
\* with the thread still probing, in the listener or sleeping. stop_all releases the lock of the service.
MonitorJoin(timed_out) ==
    /\ monitor.stop_all = "join"
    /\ LET t == Len(monitor.threads)
       IN  IF timed_out
           THEN monitor.threads[t] \in {"probe", "listener", "get_status", "sleep"}
           ELSE t \notin MonitorAlive
    /\ monitor' = [monitor EXCEPT !.service_lock = "free", !.stop_all = "returned"]
    /\ UNCHANGED <<pipeVars, taskVars, workerVars, shutdownVars, uploadVars, gateVars,
                   streamVars, sceneVars, counting, inserting>>

InitMonitor ==
    /\ PipelineInit
    /\ WorkersStarted
    /\ TasksStreaming(Sources)
    /\ ComponentsIdle

NextMonitor ==
    \/ MonitorStartAll
    \/ \E t \in DOMAIN monitor.threads : MonitorCheck(t)
    \/ \E t \in DOMAIN monitor.threads, outcome \in ProbeOutcomes : MonitorProbe(t, outcome)
    \/ \E t \in DOMAIN monitor.threads, reads \in ListenerReads : MonitorListener(t, reads)
    \/ MonitorGetAllStatuses
    \/ \E t \in {0} \cup DOMAIN monitor.threads : MonitorGetStatus(t)
    \/ \E t \in DOMAIN monitor.threads : MonitorSleep(t)
    \/ MonitorStopAll
    \/ MonitorJoin(TRUE)
    \/ MonitorJoin(FALSE)

SpecMonitor == InitMonitor /\ [][NextMonitor]_vars

\* C39: while a status-change listener runs, no lock that get_status of
\* the monitor or get_all_statuses of the service needs is held by the
\* calling monitor thread, so that the listener can read the health state
\* and return.
C39_ListenerWithoutLock ==
    \A t \in DOMAIN monitor.threads :
        monitor.threads[t] \in {"listener", "get_status"} => monitor.lock # t

\* C40: at most one monitoring thread of a registered server is alive,
\* for any sequence of start and stop calls, also after a stop() whose
\* join timed out.
C40_OneMonitorThread == Cardinality(MonitorAlive) <= 1

====
